---- MODULE Spec2Model ----
(***************************************************************************)
(* A model of the static traffic analyzer: the policy evaluator            *)
(* (Evaluate, Precheck), the group flattener of the parsers and the        *)
(* producer / worker / writer pipeline of the command.                     *)
(*                                                                         *)
(* Addresses.  Go compares addresses in their 16-byte form (net.IP.To16),  *)
(* in which an IPv4 address a.b.c.d is ::ffff:a.b.c.d.  The model keeps    *)
(* that shape at a smaller width: an address is the integer value of its   *)
(* canonical form, V6Bits wide; the addresses whose leading bits are 01    *)
(* are the IPv4 ones (the image of the ::ffff:0:0/96 block), V4Bits wide.  *)
(***************************************************************************)
EXTENDS Integers, Sequences, FiniteSets, Bags, TLC

VARIABLES
    phase,          \* where the run is: which step of the program acted last
    input,          \* the []model.Policy handed to NewEvaluator
    Policies,       \* Evaluator.Policies
    precheckIndex,  \* Evaluator.precheckIndex
    broadPolicies,  \* Evaluator.broadPolicies
    task,           \* the *model.Task of the last Evaluate call
    result,         \* the model.SimulationResult it returned
    query,          \* the arguments of the last Precheck call
    presult,        \* the (status, policy, reason) it returned
    provider,       \* the --provider of the run: which parser loads the rules
    AddrGrps,       \* parser.AddrGrps
    SvcGrps,        \* parser.SvcGrps
    parsed,         \* parser.Policies
    flatErr,        \* the error Parse returned
    rules,          \* the policy blocks or rows the parser read
    flags,          \* --workers, --mode and --max-hosts of the run
    traffic,        \* the *parser.InputTraffic of the run
    totalTasks,     \* run's estimate of the number of tasks
    tasks,          \* the channel from the producer to the workers
    results,        \* the channel from the workers to the writer
    producer,       \* the producer goroutine: its place in the loops, taskCount
    worker,         \* the worker goroutines: their place, the result they hold
    coord,          \* run itself, once the goroutines are started
    writer,         \* the resultWriter goroutine: its place, written
    outFile,        \* the total sink: csv.Writer over the --out file
    routableFile,   \* the accepted-only sink: csv.Writer over the --routable file
    completedTasks, \* the shared progress counter
    progress,       \* the progress goroutine: its place, lastLogged
    sent,           \* history: the tasks sent on the task channel, in order
    received,       \* history: the tasks the workers received, in order
    got,            \* history: the results the writer received, in order
    outcome         \* how run ended: "" while it runs, "ok" for a nil error

evalVars == <<phase, input, Policies, precheckIndex, broadPolicies,
              task, result, query, presult>>
flatVars == <<provider, AddrGrps, SvcGrps, parsed, flatErr, rules>>
pipeVars == <<flags, traffic, totalTasks, tasks, results, producer, worker, coord,
              writer, outFile, routableFile, completedTasks, progress,
              sent, received, got, outcome>>
vars == <<evalVars, flatVars, pipeVars>>

----------------------------------------------------------------------------
(* Bounds *)

V4Bits == 2
MaxPolicies == 2

----------------------------------------------------------------------------
(* Addresses and networks (Go's net.IP and net.IPNet) *)

V6Bits == V4Bits + 2
V4Base == 2 ^ V4Bits
MaxIP == (2 ^ V6Bits) - 1
NoIP == 0 - 1
AllIPs == 0 .. MaxIP

\* net.IP.To4() != nil: a 4-byte address or a 16-byte one in ::ffff:0:0/96
IsV4(ip) == ip >= V4Base /\ ip < 2 * V4Base

V4(a) == V4Base + a

NoNet == [IP |-> NoIP, Ones |-> 0, Bits |-> 0]

\* ip.Mask(mask) with a mask that leaves hb host bits
MaskIP(ip, hb) == ip - (ip % (2 ^ hb))

\* net.IPNet.Contains: the network and the address must be of one family
Contains(n, ip) ==
    LET hb == n.Bits - n.Ones IN
    /\ IF IsV4(n.IP)
         THEN /\ \/ n.Bits = V4Bits
                 \/ n.Bits = V6Bits /\ n.Ones >= V6Bits - V4Bits
              /\ IsV4(ip)
         ELSE n.Bits = V6Bits /\ ~IsV4(ip)
    /\ MaskIP(ip, hb) = MaskIP(n.IP, hb)

\* a comparison that never answers "equal"
bytesCompareNoEq(a, b) == IF a < b THEN 0 - 1 ELSE 1

bytesCompare(a, b) == IF a < b THEN 0 - 1 ELSE IF a > b THEN 1 ELSE 0

cidrRange(cidr) ==
    IF cidr = NoNet THEN <<NoIP, NoIP>>
    ELSE LET hb == cidr.Bits - cidr.Ones
             start == MaskIP(cidr.IP, hb)
         IN <<start, start + (2 ^ hb) - 1>>

sameIPFamily(a, b) == IsV4(a) = IsV4(b)

----------------------------------------------------------------------------
(* The object model *)

Protocols == {"tcp", "udp"}

AddressObject(name, type, ipnet, startIP, endIP) ==
    [Name |-> name, Type |-> type, IPNet |-> ipnet,
     StartIP |-> startIP, EndIP |-> endIP]

ServiceObject(name, proto, startPort, endPort) ==
    [Name |-> name, Protocol |-> proto, StartPort |-> startPort, EndPort |-> endPort]

Policy(id, priority, src, dst, svcs, action, enabled) ==
    [ID |-> id, Priority |-> priority, SrcAddrs |-> src, DstAddrs |-> dst,
     Services |-> svcs, RawSrcAddrNames |-> <<>>, RawDstAddrNames |-> <<>>,
     RawSvcNames |-> <<>>, Action |-> action, Enabled |-> enabled]

Task(srcIP, dstIP, port, proto) ==
    [SrcIP |-> srcIP, DstIP |-> dstIP, Port |-> port, Proto |-> proto]

NoPolicy == [ID |-> ""]
NoTask == [SrcIP |-> NoIP]
NoResult == [Decision |-> ""]
NoQuery == [Port |-> 0]
\* a nil error
NoErr == [msg |-> ""]

----------------------------------------------------------------------------
(* The matcher *)

RECURSIVE matchAddrFrom(_, _, _)
matchAddrFrom(addrs, ip, i) ==
    IF i > Len(addrs) THEN FALSE
    ELSE LET addr == addrs[i] IN
         IF addr.Name = "all" THEN TRUE
         ELSE IF addr.Type = "ipmask" /\ addr.IPNet # NoNet /\ Contains(addr.IPNet, ip)
              THEN TRUE
         ELSE IF /\ addr.Type = "iprange"
                 /\ addr.StartIP # NoIP /\ addr.EndIP # NoIP
                 /\ bytesCompare(ip, addr.StartIP) >= 0
                 /\ bytesCompare(ip, addr.EndIP) <= 0
              THEN TRUE
         ELSE matchAddrFrom(addrs, ip, i + 1)

\* a matcher that looks at the first object of the axis only
matchAddrFirst(addrs, ip) ==
    IF Len(addrs) = 0 THEN FALSE ELSE matchAddrFrom(<<addrs[1]>>, ip, 1)

matchAddr(addrs, ip) ==
    IF Len(addrs) = 0 THEN FALSE ELSE matchAddrFrom(addrs, ip, 1)

RECURSIVE matchSvcFrom(_, _, _)
matchSvcFrom(svcs, t, i) ==
    IF i > Len(svcs) THEN FALSE
    ELSE LET svc == svcs[i] IN
         IF svc.Name = "all" THEN TRUE
         ELSE IF /\ svc.Protocol = t.Proto
                 /\ t.Port >= svc.StartPort /\ t.Port <= svc.EndPort
              THEN TRUE
         ELSE matchSvcFrom(svcs, t, i + 1)

\* a matcher that does not look at the protocol
matchSvcAnyProto(svcs, t) ==
    /\ Len(svcs) > 0
    /\ \E k \in DOMAIN svcs :
         \/ svcs[k].Name = "all"
         \/ t.Port >= svcs[k].StartPort /\ t.Port <= svcs[k].EndPort

matchSvc(svcs, t) ==
    IF Len(svcs) = 0 THEN FALSE ELSE matchSvcFrom(svcs, t, 1)

matches(policy, t) ==
    /\ matchAddr(policy.SrcAddrs, t.SrcIP)
    /\ matchAddr(policy.DstAddrs, t.DstIP)
    /\ matchSvc(policy.Services, t)

----------------------------------------------------------------------------
(* Evaluator.Evaluate *)

MatchResult(policy, t) ==
    [Decision |-> IF policy.Action = "accept" THEN "ALLOW" ELSE "DENY",
     MatchedPolicyID |-> policy.ID,
     MatchedPolicyAction |-> policy.Action,
     SrcIP |-> t.SrcIP, DstIP |-> t.DstIP,
     Reason |-> IF policy.Action = "accept" THEN "MATCH_POLICY_ACCEPT"
                                            ELSE "MATCH_POLICY_DENY",
     FlowCount |-> 1]

\* the fallback answering ALLOW
ImplicitAllow(t) ==
    [Decision |-> "ALLOW", MatchedPolicyID |-> "", MatchedPolicyAction |-> "",
     SrcIP |-> t.SrcIP, DstIP |-> t.DstIP,
     Reason |-> "IMPLICIT_DENY", FlowCount |-> 1]

ImplicitDeny(t) ==
    [Decision |-> "DENY", MatchedPolicyID |-> "", MatchedPolicyAction |-> "",
     SrcIP |-> t.SrcIP, DstIP |-> t.DstIP,
     Reason |-> "IMPLICIT_DENY", FlowCount |-> 1]

\* Evaluate without the Enabled test
RECURSIVE EvaluateNoSkipFrom(_, _, _)
EvaluateNoSkipFrom(policies, t, i) ==
    IF i > Len(policies) THEN ImplicitDeny(t)
    ELSE IF matches(policies[i], t) THEN MatchResult(policies[i], t)
    ELSE EvaluateNoSkipFrom(policies, t, i + 1)

EvaluateNoSkip(policies, t) == EvaluateNoSkipFrom(policies, t, 1)

\* Evaluate with a loop that does not stop at the first match
RECURSIVE EvaluateLastMatchFrom(_, _, _)
EvaluateLastMatchFrom(policies, t, i) ==
    IF i < 1 THEN ImplicitDeny(t)
    ELSE IF policies[i].Enabled /\ matches(policies[i], t) THEN MatchResult(policies[i], t)
    ELSE EvaluateLastMatchFrom(policies, t, i - 1)

EvaluateLastMatch(policies, t) == EvaluateLastMatchFrom(policies, t, Len(policies))

RECURSIVE EvaluateFrom(_, _, _)
EvaluateFrom(policies, t, i) ==
    IF i > Len(policies) THEN ImplicitDeny(t)
    ELSE IF ~policies[i].Enabled THEN EvaluateFrom(policies, t, i + 1)
    ELSE IF matches(policies[i], t) THEN MatchResult(policies[i], t)
    ELSE EvaluateFrom(policies, t, i + 1)

Evaluate(policies, t) == EvaluateFrom(policies, t, 1)

----------------------------------------------------------------------------
(* Evaluator.Precheck *)

StatusSkip == "SKIP"
StatusAllowAll == "ALLOW_ALL"
StatusExpand == "EXPAND"

relNone == 0
relPartial == 1
relFull == 2

rangeRelation(rangeStart, rangeEnd, cidrStart, cidrEnd) ==
    IF bytesCompare(rangeEnd, cidrStart) < 0 \/ bytesCompare(rangeStart, cidrEnd) > 0
    THEN relNone
    ELSE IF bytesCompare(rangeStart, cidrStart) <= 0 /\ bytesCompare(rangeEnd, cidrEnd) >= 0
    THEN relFull
    ELSE relPartial

addressRange(addr) ==
    IF addr.Type = "ipmask"
    THEN IF addr.IPNet = NoNet THEN <<NoIP, NoIP>> ELSE cidrRange(addr.IPNet)
    ELSE IF addr.Type = "iprange"
    THEN IF addr.StartIP = NoIP \/ addr.EndIP = NoIP THEN <<NoIP, NoIP>>
         ELSE <<addr.StartIP, addr.EndIP>>
    ELSE <<NoIP, NoIP>>

RECURSIVE addrRelationFrom(_, _, _, _)
addrRelationFrom(addrs, cidr, i, partialFound) ==
    IF i > Len(addrs) THEN (IF partialFound THEN relPartial ELSE relNone)
    ELSE LET addr == addrs[i]
             rng == addressRange(addr)
             cr == cidrRange(cidr)
         IN IF addr.Name = "all" THEN relFull
            ELSE IF rng[1] = NoIP \/ rng[2] = NoIP
                 THEN addrRelationFrom(addrs, cidr, i + 1, partialFound)
            ELSE IF ~sameIPFamily(rng[1], cr[1])
                 THEN addrRelationFrom(addrs, cidr, i + 1, partialFound)
            ELSE LET rel == rangeRelation(rng[1], rng[2], cr[1], cr[2]) IN
                 IF rel = relFull THEN relFull
                 ELSE addrRelationFrom(addrs, cidr, i + 1,
                                       partialFound \/ rel = relPartial)

addrRelation(addrs, cidr) ==
    IF cidr = NoNet \/ Len(addrs) = 0 THEN relNone
    ELSE addrRelationFrom(addrs, cidr, 1, FALSE)

\* the inline service loop of Precheck
\* a service loop that does not look at the protocol
precheckSvcAnyProto(svcs, port, proto, i) ==
    \E k \in DOMAIN svcs :
       svcs[k].Name = "all" \/ (port >= svcs[k].StartPort /\ port <= svcs[k].EndPort)

RECURSIVE precheckSvcFrom(_, _, _, _)
precheckSvcFrom(svcs, port, proto, i) ==
    IF i > Len(svcs) THEN FALSE
    ELSE IF \/ svcs[i].Name = "all"
            \/ /\ svcs[i].Protocol = proto
               /\ port >= svcs[i].StartPort /\ port <= svcs[i].EndPort
         THEN TRUE
    ELSE precheckSvcFrom(svcs, port, proto, i + 1)

PrecheckAnswer(status, policy, reason) ==
    [Status |-> status, Policy |-> policy, Reason |-> reason]

RECURSIVE PrecheckFrom(_, _, _, _, _, _)
PrecheckFrom(policies, srcCIDR, dstCIDR, port, proto, i) ==
    IF i > Len(policies)
    THEN PrecheckAnswer(StatusSkip, NoPolicy, "PRECHECK_IMPLICIT_DENY")
    ELSE LET policy == policies[i]
             next == PrecheckFrom(policies, srcCIDR, dstCIDR, port, proto, i + 1)
         IN IF ~policy.Enabled THEN next
            ELSE IF ~precheckSvcFrom(policy.Services, port, proto, 1) THEN next
            ELSE LET srcRel == addrRelation(policy.SrcAddrs, srcCIDR) IN
                 IF srcRel = relNone THEN next
                 ELSE LET dstRel == addrRelation(policy.DstAddrs, dstCIDR) IN
                      IF dstRel = relNone THEN next
                      ELSE IF srcRel # relFull \/ dstRel # relFull
                           THEN PrecheckAnswer(StatusExpand, policy, "PRECHECK_PARTIAL")
                      ELSE IF policy.Action = "accept"
                           THEN PrecheckAnswer(StatusAllowAll, policy, "PRECHECK_ALLOW_ALL")
                      ELSE PrecheckAnswer(StatusSkip, policy, "PRECHECK_DENY")

Precheck(policies, srcCIDR, dstCIDR, port, proto) ==
    IF srcCIDR = NoNet \/ dstCIDR = NoNet
    THEN PrecheckAnswer(StatusExpand, NoPolicy, "PRECHECK_INVALID_CIDR")
    ELSE PrecheckFrom(policies, srcCIDR, dstCIDR, port, proto, 1)

----------------------------------------------------------------------------
(* NewEvaluator *)

\* sort.SliceStable with less(i, j) = Priority[i] < Priority[j]: an element goes
\* behind every element it is not less than
RECURSIVE InsertByPriority(_, _)
InsertByPriority(sorted, p) ==
    IF sorted = <<>> THEN <<p>>
    ELSE IF p.Priority < Head(sorted).Priority THEN <<p>> \o sorted
    ELSE <<Head(sorted)>> \o InsertByPriority(Tail(sorted), p)

\* the table left in the caller's order
SliceUnsorted(s) == s

RECURSIVE SliceStable(_)
SliceStable(s) ==
    IF s = <<>> THEN <<>>
    ELSE InsertByPriority(SliceStable(SubSeq(s, 1, Len(s) - 1)), s[Len(s)])

BroadSpan == 100

RECURSIVE isBroadFrom(_, _)
isBroadFrom(svcs, i) ==
    IF i > Len(svcs) THEN FALSE
    ELSE IF svcs[i].Name = "all" \/ (svcs[i].EndPort - svcs[i].StartPort) > BroadSpan
         THEN TRUE
    ELSE isBroadFrom(svcs, i + 1)

\* precheckKey: string(proto) + ":" + strconv.Itoa(port)
precheckKey(port, proto) == <<proto, ":", port>>

\* the policies (by position) buildPrecheckIndex appends to e.broadPolicies
RECURSIVE broadFrom(_, _)
broadFrom(policies, i) ==
    IF i > Len(policies) THEN <<>>
    ELSE IF policies[i].Enabled /\ isBroadFrom(policies[i].Services, 1)
         THEN <<i>> \o broadFrom(policies, i + 1)
    ELSE broadFrom(policies, i + 1)

\* the entries buildPrecheckIndex appends under one key for one policy
RECURSIVE indexEntries(_, _, _, _)
indexEntries(svcs, key, i, j) ==
    IF j > Len(svcs) THEN <<>>
    ELSE (IF \E p \in svcs[j].StartPort .. svcs[j].EndPort :
                precheckKey(p, svcs[j].Protocol) = key
          THEN <<i>> ELSE <<>>) \o indexEntries(svcs, key, i, j + 1)

RECURSIVE indexFrom(_, _, _)
indexFrom(policies, key, i) ==
    IF i > Len(policies) THEN <<>>
    ELSE IF policies[i].Enabled /\ ~isBroadFrom(policies[i].Services, 1)
         THEN indexEntries(policies[i].Services, key, i, 1) \o indexFrom(policies, key, i + 1)
    ELSE indexFrom(policies, key, i + 1)

indexKeys(policies) ==
    UNION { UNION { { precheckKey(p, policies[i].Services[j].Protocol) :
                        p \in policies[i].Services[j].StartPort ..
                              policies[i].Services[j].EndPort } :
                    j \in DOMAIN policies[i].Services } :
            i \in { k \in DOMAIN policies :
                      policies[k].Enabled /\ ~isBroadFrom(policies[k].Services, 1) } }

buildPrecheckIndex(policies) ==
    [index |-> [key \in indexKeys(policies) |-> indexFrom(policies, key, 1)],
     broad |-> broadFrom(policies, 1)]

----------------------------------------------------------------------------
(* The policies, tasks and precheck queries the evaluator is run on *)

allAddr == AddressObject("all", "", NoNet, NoIP, NoIP)
\* the lower half of the IPv4 space, as an ipmask object
lan == AddressObject("lan", "ipmask", [IP |-> V4(0), Ones |-> 1, Bits |-> V4Bits], NoIP, NoIP)
\* an iprange object inside the IPv4 space
rng4 == AddressObject("rng4", "iprange", NoNet, V4(1), V4(2))
\* an iprange object with IPv6 bounds, :: to ffff:...:ffff
rng6 == AddressObject("rng6", "iprange", NoNet, 0, MaxIP)
\* the IPv6 network ::/0
net6 == AddressObject("net6", "ipmask", [IP |-> 0, Ones |-> 0, Bits |-> V6Bits], NoIP, NoIP)
fq == AddressObject("fq", "fqdn", NoNet, NoIP, NoIP)

allSvc == ServiceObject("all", "", 0, 0)
tcp1 == ServiceObject("tcp1", "tcp", 1, 1)
udp12 == ServiceObject("udp12", "udp", 1, 2)

\* <<priority, src, dst, services, action, enabled>>
PolicyCatalog ==
    { <<1, <<allAddr>>, <<allAddr>>, <<allSvc>>, "accept", TRUE>>,
      <<2, <<allAddr>>, <<allAddr>>, <<allSvc>>, "deny", TRUE>>,
      <<1, <<lan>>, <<allAddr>>, <<tcp1>>, "deny", TRUE>>,
      <<2, <<lan>>, <<allAddr>>, <<tcp1>>, "accept", TRUE>>,
      <<1, <<rng6>>, <<allAddr>>, <<allSvc>>, "deny", TRUE>>,
      <<2, <<rng6>>, <<allAddr>>, <<tcp1>>, "accept", TRUE>>,
      <<2, <<fq, rng4>>, <<lan>>, <<udp12>>, "accept", TRUE>>,
      <<1, <<allAddr>>, <<rng4>>, <<udp12, tcp1>>, "deny", TRUE>>,
      <<1, <<net6>>, <<net6>>, <<allSvc>>, "accept", TRUE>>,
      <<2, <<>>, <<allAddr>>, <<allSvc>>, "accept", TRUE>>,
      <<1, <<allAddr>>, <<allAddr>>, <<allSvc>>, "accept", FALSE>>,
      <<1, <<lan>>, <<allAddr>>, <<tcp1>>, "deny", FALSE>> }

LastV4 == V4((2 ^ V4Bits) - 1)

TaskSrcIPs == {V4(1), LastV4, MaxIP}
TaskDstIPs == {V4(1), LastV4, MaxIP}
\* the (port, protocol) entries of the ports file
PortEntries == {<<1, "tcp">>, <<2, "tcp">>, <<2, "udp">>}

Tasks == { Task(s, d, pe[1], pe[2]) : s \in TaskSrcIPs, d \in TaskDstIPs, pe \in PortEntries }

Net(ip, ones, bits) == [IP |-> ip, Ones |-> ones, Bits |-> bits]

QuerySrcNets == { Net(V4(0), 0, V4Bits), Net(V4(0), 1, V4Bits),
                  Net(V4(1), V4Bits, V4Bits), Net(0, 0, V6Bits) }
QueryDstNets == { Net(V4(0), 0, V4Bits), Net(V4(1), V4Bits, V4Bits) }

Queries ==
    { [Src |-> s, Dst |-> d, Port |-> pe[1], Proto |-> pe[2]] :
        s \in QuerySrcNets, d \in QueryDstNets, pe \in PortEntries }
    \cup { [Src |-> NoNet, Dst |-> Net(V4(0), 0, V4Bits), Port |-> 1, Proto |-> "tcp"] }

Hosts(cidr) == { ip \in AllIPs : cidr # NoNet /\ Contains(cidr, ip) }

----------------------------------------------------------------------------
(* The evaluator as a state machine: policies are loaded, NewEvaluator     *)
(* builds the table, and Evaluate and Precheck are then called on it.      *)

\* no evaluator is built and no call is made
EvalIdle ==
    /\ input = <<>>
    /\ Policies = <<>>
    /\ precheckIndex = <<>>
    /\ broadPolicies = <<>>
    /\ task = NoTask
    /\ result = NoResult
    /\ query = NoQuery
    /\ presult = PrecheckAnswer("", NoPolicy, "")

\* no parser is built
FlatIdle ==
    /\ provider = ""
    /\ AddrGrps = <<>>
    /\ SvcGrps = <<>>
    /\ parsed = <<>>
    /\ flatErr = NoErr
    /\ rules = <<>>

\* make(chan T, capacity)
Chan(capacity) == [buf |-> <<>>, cap |-> capacity, closed |-> FALSE]

\* a file that is not created, with the csv.Writer that would buffer for it
NoFile == [created |-> FALSE, file |-> <<>>, buf |-> <<>>, closed |-> FALSE]

\* the producer outside its loops
NoPos == [si |-> 0, sip |-> NoIP, di |-> 0, dip |-> NoIP, pi |-> 0]

\* run has not reached its pipeline
PipeIdle ==
    /\ flags = [workers |-> 0, matchMode |-> "", maxHosts |-> 0]
    /\ traffic = [SrcIPs |-> <<>>, DstIPs |-> <<>>, Ports |-> <<>>]
    /\ totalTasks = 0
    /\ tasks = Chan(0)
    /\ results = Chan(0)
    /\ producer = [pc |-> "idle", pos |-> NoPos, taskCount |-> 0]
    /\ worker = <<>>
    /\ coord = "idle"
    /\ writer = [pc |-> "idle", written |-> 0]
    /\ outFile = NoFile
    /\ routableFile = NoFile
    /\ completedTasks = 0
    /\ progress = [pc |-> "idle", lastLogged |-> 0]
    /\ sent = <<>>
    /\ received = <<>>
    /\ got = <<>>
    /\ outcome = ""

EvalInit ==
    /\ phase = "load"
    /\ EvalIdle
    /\ FlatIdle
    /\ PipeIdle

\* the caller appends one more policy to the slice it will pass
LoadPolicy ==
    /\ phase = "load"
    /\ Len(input) < MaxPolicies
    /\ \E c \in PolicyCatalog :
         input' = Append(input,
                    Policy(ToString(Len(input) + 1), c[1], c[2], c[3], c[4], c[5], c[6]))
    /\ UNCHANGED <<phase, Policies, precheckIndex, broadPolicies,
                   task, result, query, presult>>
    /\ UNCHANGED flatVars
    /\ UNCHANGED pipeVars

\* the slice is sorted in place: the caller's slice and the table are one array
NewEvaluator ==
    /\ phase = "load"
    /\ LET sorted == SliceStable(input)
           built == buildPrecheckIndex(sorted)
       IN /\ input' = sorted
          /\ Policies' = sorted
          /\ precheckIndex' = built.index
          /\ broadPolicies' = built.broad
    /\ phase' = "ready"
    /\ UNCHANGED <<task, result, query, presult>>
    /\ UNCHANGED flatVars
    /\ UNCHANGED pipeVars

\* a worker calls Evaluate on one of the tasks of T
EvaluateIn(T) ==
    /\ phase = "ready"
    /\ \E t \in T :
         /\ task' = t
         /\ result' = Evaluate(Policies, t)
    /\ phase' = "evaluated"
    /\ query' = NoQuery
    /\ presult' = PrecheckAnswer("", NoPolicy, "")
    /\ UNCHANGED <<input, Policies, precheckIndex, broadPolicies>>
    /\ UNCHANGED flatVars
    /\ UNCHANGED pipeVars

EvaluateTask == EvaluateIn(Tasks)

PrecheckQuery ==
    /\ phase = "ready"
    /\ \E q \in Queries :
         /\ query' = q
         /\ presult' = Precheck(Policies, q.Src, q.Dst, q.Port, q.Proto)
    /\ phase' = "prechecked"
    /\ task' = NoTask
    /\ result' = NoResult
    /\ UNCHANGED <<input, Policies, precheckIndex, broadPolicies>>
    /\ UNCHANGED flatVars
    /\ UNCHANGED pipeVars

\* the call has returned and its caller is done with the answer
Return ==
    /\ phase \in {"evaluated", "prechecked"}
    /\ phase' = "ready"
    /\ task' = NoTask
    /\ result' = NoResult
    /\ query' = NoQuery
    /\ presult' = PrecheckAnswer("", NoPolicy, "")
    /\ UNCHANGED <<input, Policies, precheckIndex, broadPolicies>>
    /\ UNCHANGED flatVars
    /\ UNCHANGED pipeVars

EvalNext == LoadPolicy \/ NewEvaluator \/ EvaluateTask \/ PrecheckQuery \/ Return

SpecEval == EvalInit /\ [][EvalNext]_vars

----------------------------------------------------------------------------
(* Claims about Evaluate *)

\* the enabled policies of the table, by position, whose three axes match t
Matching(policies, t) ==
    { k \in DOMAIN policies : policies[k].Enabled /\ matches(policies[k], t) }

First(S) == CHOOSE k \in S : \A j \in S : k <= j

\* C1: Evaluate returns the id and the action of the first enabled matching
\* policy, which no enabled matching policy precedes in priority; the decision
\* is ALLOW / MATCH_POLICY_ACCEPT when its action is accept and
\* DENY / MATCH_POLICY_DENY otherwise, whatever matches after it.
C1_FirstMatchWins ==
    (phase = "evaluated" /\ Matching(Policies, task) # {}) =>
        LET M == Matching(Policies, task)
            p == Policies[First(M)]
        IN /\ \A j \in M : p.Priority <= Policies[j].Priority
           /\ result.MatchedPolicyID = p.ID
           /\ result.MatchedPolicyAction = p.Action
           /\ p.Action = "accept" =>
                result.Decision = "ALLOW" /\ result.Reason = "MATCH_POLICY_ACCEPT"
           /\ p.Action # "accept" =>
                result.Decision = "DENY" /\ result.Reason = "MATCH_POLICY_DENY"

\* a deny shadows a later accept that matches the same task, behind a policy
\* that does not match and with the input out of priority order
C1_Witness ==
    /\ phase = "evaluated"
    /\ Cardinality(Matching(Policies, task)) >= 2
    /\ result.Decision = "DENY" /\ result.Reason = "MATCH_POLICY_DENY"
    /\ \E j \in Matching(Policies, task) :
         Policies[j].Action = "accept" /\ Policies[j].ID # result.MatchedPolicyID
    /\ Policies[1].ID # "1"

\* C2: when no enabled policy matches the task, Evaluate returns DENY with
\* reason IMPLICIT_DENY and no policy id; every call returns a decision.
C2_ImplicitDeny ==
    phase = "evaluated" =>
        /\ result.Decision \in {"ALLOW", "DENY"}
        /\ Matching(Policies, task) = {} =>
             /\ result.Decision = "DENY"
             /\ result.Reason = "IMPLICIT_DENY"
             /\ result.MatchedPolicyID = ""

\* enabled and disabled policies are in the table and none matches
C2_Witness ==
    /\ phase = "evaluated"
    /\ Matching(Policies, task) = {}
    /\ \E k \in DOMAIN Policies : Policies[k].Enabled
    /\ \E k \in DOMAIN Policies : ~Policies[k].Enabled /\ matches(Policies[k], task)
    /\ result.Reason = "IMPLICIT_DENY"

\* the table with the Enabled flag of its i-th policy flipped
Toggle(policies, i) ==
    [policies EXCEPT ![i].Enabled = ~policies[i].Enabled]

\* C9: flipping Enabled on a policy that does not match the task leaves
\* Evaluate's answer unchanged; disabling the first matching policy makes
\* Evaluate answer with the next enabled matching policy, or IMPLICIT_DENY when
\* there is none; Precheck returns no disabled policy.
C9_DisabledSkip ==
    /\ phase = "evaluated" =>
         \A i \in DOMAIN Policies :
            LET M == Matching(Policies, task)
                later == { j \in M : j > i }
                after == Evaluate(Toggle(Policies, i), task)
            IN /\ ~matches(Policies[i], task) => after = result
               /\ (M # {} /\ First(M) = i) =>
                    after = IF later = {} THEN ImplicitDeny(task)
                            ELSE MatchResult(Policies[First(later)], task)
    /\ phase = "prechecked" =>
         (presult.Policy # NoPolicy => presult.Policy.Enabled)

\* the first match has an enabled matching policy behind it, and the table
\* holds a policy that does not match
C9_Witness ==
    /\ phase = "evaluated"
    /\ Cardinality(Matching(Policies, task)) >= 2
    /\ result.MatchedPolicyID = Policies[First(Matching(Policies, task))].ID
    /\ Evaluate(Toggle(Policies, 1), task) # result

----------------------------------------------------------------------------
(* Claims about Precheck *)

QueryTask(s, d) == Task(s, d, query.Port, query.Proto)

\* C3: when Precheck answers ALLOW_ALL with policy p, Evaluate answers ALLOW
\* with matched_policy_id = p.id for every host pair of the two CIDRs.
C3_AllowAllSound ==
    (phase = "prechecked" /\ presult.Status = StatusAllowAll) =>
        \A s \in Hosts(query.Src), d \in Hosts(query.Dst) :
            LET r == Evaluate(Policies, QueryTask(s, d)) IN
            r.Decision = "ALLOW" /\ r.MatchedPolicyID = presult.Policy.ID

\* C4: when Precheck answers SKIP with policy p, every host pair evaluates to
\* DENY with matched_policy_id = p.id; when it answers SKIP with no policy,
\* every host pair evaluates to DENY with reason IMPLICIT_DENY.
C4_SkipSound ==
    (phase = "prechecked" /\ presult.Status = StatusSkip) =>
        \A s \in Hosts(query.Src), d \in Hosts(query.Dst) :
            LET r == Evaluate(Policies, QueryTask(s, d)) IN
            IF presult.Policy # NoPolicy
            THEN r.Decision = "DENY" /\ r.MatchedPolicyID = presult.Policy.ID
            ELSE r.Decision = "DENY" /\ r.Reason = "IMPLICIT_DENY"

----------------------------------------------------------------------------
(* A local variable: Body is evaluated with the value of e, which is       *)
(* computed once.                                                          *)

Bind(e, Body(_)) == CHOOSE r \in { Body(x) : x \in {e} } : TRUE

----------------------------------------------------------------------------
(* Names.  A name is a Go string; the letter-case functions are given on   *)
(* the names the configurations below use.                                  *)

\* strings.ToLower
ToLower(s) ==
    CASE s \in {"ALL", "All"} -> "all"
      [] s = "A" -> "a"
      [] s = "B" -> "b"
      [] s = "SA" -> "sa"
      [] s = "SB" -> "sb"
      [] s = "DNS" -> "dns"
      [] s = "ALL_ICMP" -> "all_icmp"
      [] s = "TCP" -> "tcp"
      [] OTHER -> s

\* strings.ToUpper
ToUpper(s) ==
    CASE s \in {"all", "All"} -> "ALL"
      [] s = "lan" -> "LAN"
      [] s = "rng4" -> "RNG4"
      [] s = "ghost" -> "GHOST"
      [] s = "dns" -> "DNS"
      [] s = "tcp_1" -> "TCP_1"
      [] s = "udp_1-2" -> "UDP_1-2"
      [] s = "tcp_2" -> "TCP_2"
      [] s = "tcp_0" -> "TCP_0"
      [] OTHER -> s

\* a comparison that tells letter case apart
EqualExact(s, t) == s = t

\* strings.EqualFold
EqualFold(s, t) == ToLower(s) = ToLower(t)

\* strings.Split(name, "_")
SplitUnderscore(s) ==
    CASE s = "tcp_1" -> <<"tcp", "1">>
      [] s = "tcp_2" -> <<"tcp", "2">>
      [] s = "tcp_0" -> <<"tcp", "0">>
      [] s = "udp_1-2" -> <<"udp", "1-2">>
      [] s = "ALL_ICMP" -> <<"ALL", "ICMP">>
      [] OTHER -> <<s>>

\* strings.Split(portRange, "-")
SplitDash(s) ==
    CASE s = "1-2" -> <<"1", "2">>
      [] OTHER -> <<s>>

\* strconv.Atoi: the value and whether the conversion failed
Atoi(s) ==
    CASE s = "0" -> [n |-> 0, err |-> FALSE]
      [] s = "1" -> [n |-> 1, err |-> FALSE]
      [] s = "2" -> [n |-> 2, err |-> FALSE]
      [] OTHER -> [n |-> 0, err |-> TRUE]

----------------------------------------------------------------------------
(* The well-known service registry *)

ServiceEntry(proto, port) == [Protocol |-> proto, Port |-> port]

\* the entries the tests of the registry name: the DNS alias and the ICMP stub
serviceRegistry ==
    [k \in {"DNS", "ALL_ICMP"} |->
        IF k = "DNS" THEN <<ServiceEntry("tcp", 53), ServiceEntry("udp", 53)>>
        ELSE <<ServiceEntry("tcp", 65535)>>]

GetService(name) ==
    LET key == ToUpper(name) IN
    IF key \in DOMAIN serviceRegistry
    THEN [entries |-> serviceRegistry[key], ok |-> TRUE]
    ELSE [entries |-> <<>>, ok |-> FALSE]

----------------------------------------------------------------------------
(* The parsers: group flattening.  A parser p is the record of its maps    *)
(* and of its policies; FortiGateParser and MariaDBParser flatten          *)
(* addresses with the same statements and differ on unresolved services.   *)

Parser(prov, addressObjects, serviceObjects, addrGrps, svcGrps, policies) ==
    [Provider |-> prov, AddressObjects |-> addressObjects,
     ServiceObjects |-> serviceObjects, AddrGrps |-> addrGrps,
     SvcGrps |-> svcGrps, Policies |-> policies]

CircularErr(kind, name) ==
    [msg |-> "circular dependency detected", kind |-> kind, group |-> name]

\* what a flatten call returns, and the visit set it leaves behind
Flat(resolved, err, visited) ==
    [results |-> resolved, err |-> err, visited |-> visited]

RECURSIVE flattenAddrGroup(_, _, _)

\* the loop over the members of an address group
RECURSIVE flattenAddrMembers(_, _, _, _)
flattenAddrMembers(p, members, i, visited) ==
    IF i > Len(members) THEN Flat(<<>>, NoErr, visited)
    ELSE Bind(flattenAddrGroup(p, members[i], visited), LAMBDA m :
         IF m.err # NoErr THEN Flat(<<>>, m.err, m.visited)
         ELSE Bind(flattenAddrMembers(p, members, i + 1, m.visited), LAMBDA rest :
              IF rest.err # NoErr THEN rest
              ELSE Flat(m.results \o rest.results, NoErr, rest.visited)))

\* the statements behind the visit test without the deferred delete
flattenAddrVisitKeep(p, name, visited) ==
    LET direct == IF name \in DOMAIN p.AddressObjects
                  THEN <<p.AddressObjects[name]>> ELSE <<>>
    IN Bind(IF name \in DOMAIN p.AddrGrps
            THEN flattenAddrMembers(p, p.AddrGrps[name], 1, visited \cup {name})
            ELSE Flat(<<>>, NoErr, visited \cup {name}), LAMBDA sub :
       IF sub.err # NoErr THEN Flat(<<>>, sub.err, sub.visited)
       ELSE Flat(direct \o sub.results, NoErr, sub.visited))

\* the statements behind the visit test: mark the name, collect the direct
\* object and the members, unmark the name on the way out (the deferred delete)
flattenAddrVisit(p, name, visited) ==
    LET direct == IF name \in DOMAIN p.AddressObjects
                  THEN <<p.AddressObjects[name]>> ELSE <<>>
    IN Bind(IF name \in DOMAIN p.AddrGrps
            THEN flattenAddrMembers(p, p.AddrGrps[name], 1, visited \cup {name})
            ELSE Flat(<<>>, NoErr, visited \cup {name}), LAMBDA sub :
       IF sub.err # NoErr THEN Flat(<<>>, sub.err, sub.visited \ {name})
       ELSE Flat(direct \o sub.results, NoErr, sub.visited \ {name}))

\* a flattener that cuts a revisited name off instead of failing
flattenAddrGroupCut(p, name, visited) ==
    IF EqualFold(name, "all") THEN Flat(<<allAddr>>, NoErr, visited)
    ELSE IF name \in visited THEN Flat(<<>>, NoErr, visited)
    ELSE flattenAddrVisit(p, name, visited)

flattenAddrGroup(p, name, visited) ==
    IF EqualFold(name, "all") THEN Flat(<<allAddr>>, NoErr, visited)
    ELSE IF name \in visited THEN Flat(<<>>, CircularErr("address", name), visited)
    ELSE flattenAddrVisit(p, name, visited)

\* the services a well-known name stands for, as MariaDBParser builds them
wellKnownMariaDB(name, entries) ==
    [k \in 1 .. Len(entries) |->
        ServiceObject(name, entries[k].Protocol, entries[k].Port, entries[k].Port)]

\* the services a well-known name stands for, as FortiGateParser builds them:
\* it reads the bounds of an entry, which the registry gives as (port, port)
wellKnownFortiGate(name, entries) ==
    [k \in 1 .. Len(entries) |->
        ServiceObject(name, entries[k].Protocol, entries[k].Port, entries[k].Port)]

\* the ad-hoc syntax proto_port[-port] of MariaDBParser
adHocService(name) ==
    LET parts == SplitUnderscore(name) IN
    IF Len(parts) # 2 THEN <<>>
    ELSE IF ToLower(parts[1]) \notin {"tcp", "udp"} THEN <<>>
    ELSE LET portParts == SplitDash(parts[2])
             start == Atoi(portParts[1])
             end == IF Len(portParts) = 2 THEN Atoi(portParts[2]) ELSE start
             err2 == Len(portParts) = 2 /\ end.err
         IN IF ~start.err /\ ~err2
            THEN <<ServiceObject(name, ToLower(parts[1]), start.n, end.n)>>
            ELSE <<>>

\* the branch taken when the name is neither a service object nor a group
serviceFallback(p, name) ==
    LET wk == GetService(name) IN
    IF p.Provider = "mariadb"
    THEN IF wk.ok THEN wellKnownMariaDB(name, wk.entries) ELSE adHocService(name)
    ELSE IF wk.ok THEN wellKnownFortiGate(name, wk.entries) ELSE <<>>

RECURSIVE flattenSvcGroup(_, _, _)

\* the loop over the members of a service group
RECURSIVE flattenSvcMembers(_, _, _, _)
flattenSvcMembers(p, members, i, visited) ==
    IF i > Len(members) THEN Flat(<<>>, NoErr, visited)
    ELSE Bind(flattenSvcGroup(p, members[i], visited), LAMBDA m :
         IF m.err # NoErr THEN Flat(<<>>, m.err, m.visited)
         ELSE Bind(flattenSvcMembers(p, members, i + 1, m.visited), LAMBDA rest :
              IF rest.err # NoErr THEN rest
              ELSE Flat(m.results \o rest.results, NoErr, rest.visited)))

flattenSvcGroup(p, name, visited) ==
    IF EqualFold(name, "all") THEN Flat(<<allSvc>>, NoErr, visited)
    ELSE IF name \in visited THEN Flat(<<>>, CircularErr("service", name), visited)
    ELSE LET direct == IF name \in DOMAIN p.ServiceObjects
                       THEN <<p.ServiceObjects[name]>> ELSE <<>>
             found == name \in DOMAIN p.ServiceObjects \/ name \in DOMAIN p.SvcGrps
         IN Bind(IF name \in DOMAIN p.SvcGrps
                 THEN flattenSvcMembers(p, p.SvcGrps[name], 1, visited \cup {name})
                 ELSE Flat(<<>>, NoErr, visited \cup {name}), LAMBDA sub :
            IF sub.err # NoErr THEN Flat(<<>>, sub.err, sub.visited \ {name})
            ELSE IF found THEN Flat(direct \o sub.results, NoErr, sub.visited \ {name})
            ELSE Flat(serviceFallback(p, name), NoErr, sub.visited \ {name}))

FlattenErr(id, axis, name, err) ==
    [policy |-> id, axis |-> axis, name |-> name, cause |-> err]

\* the loop over the raw address names of one axis of one policy
RECURSIVE flattenAddrNames(_, _, _)
flattenAddrNames(p, names, i) ==
    IF i > Len(names) THEN [results |-> <<>>, err |-> NoErr, name |-> ""]
    ELSE Bind(flattenAddrGroup(p, names[i], {}), LAMBDA r :
         IF r.err # NoErr THEN [results |-> <<>>, err |-> r.err, name |-> names[i]]
         ELSE Bind(flattenAddrNames(p, names, i + 1), LAMBDA rest :
              IF rest.err # NoErr THEN rest
              ELSE [results |-> r.results \o rest.results, err |-> NoErr, name |-> ""]))

\* the loop over the raw service names of one policy
RECURSIVE flattenSvcNames(_, _, _)
flattenSvcNames(p, names, i) ==
    IF i > Len(names) THEN [results |-> <<>>, err |-> NoErr, name |-> ""]
    ELSE Bind(flattenSvcGroup(p, names[i], {}), LAMBDA r :
         IF r.err # NoErr THEN [results |-> <<>>, err |-> r.err, name |-> names[i]]
         ELSE Bind(flattenSvcNames(p, names, i + 1), LAMBDA rest :
              IF rest.err # NoErr THEN rest
              ELSE [results |-> r.results \o rest.results, err |-> NoErr, name |-> ""]))

\* the body of the loop of flattenGroups: the three axes of one policy, an
\* axis with no raw name left as it is
flattenPolicy(p, policy) ==
    Bind(flattenAddrNames(p, policy.RawSrcAddrNames, 1), LAMBDA src :
    IF src.err # NoErr
    THEN [policy |-> policy, err |-> FlattenErr(policy.ID, "srcaddr", src.name, src.err)]
    ELSE
    Bind(IF Len(policy.RawSrcAddrNames) > 0
         THEN [policy EXCEPT !.SrcAddrs = src.results] ELSE policy, LAMBDA p1 :
    Bind(flattenAddrNames(p, p1.RawDstAddrNames, 1), LAMBDA dst :
    IF dst.err # NoErr
    THEN [policy |-> p1, err |-> FlattenErr(p1.ID, "dstaddr", dst.name, dst.err)]
    ELSE
    Bind(IF Len(p1.RawDstAddrNames) > 0
         THEN [p1 EXCEPT !.DstAddrs = dst.results] ELSE p1, LAMBDA p2 :
    Bind(flattenSvcNames(p, p2.RawSvcNames, 1), LAMBDA svc :
    IF svc.err # NoErr
    THEN [policy |-> p2, err |-> FlattenErr(p2.ID, "service", svc.name, svc.err)]
    ELSE [policy |-> IF Len(p2.RawSvcNames) > 0
                     THEN [p2 EXCEPT !.Services = svc.results] ELSE p2,
          err |-> NoErr])))))

RECURSIVE flattenGroupsFrom(_, _, _)
flattenGroupsFrom(p, policies, i) ==
    IF i > Len(policies) THEN [Policies |-> policies, err |-> NoErr]
    ELSE Bind(flattenPolicy(p, policies[i]), LAMBDA r :
         Bind([policies EXCEPT ![i] = r.policy], LAMBDA done :
         IF r.err # NoErr THEN [Policies |-> done, err |-> r.err]
         ELSE flattenGroupsFrom(p, done, i + 1)))

\* flattenGroups: the policies as it leaves them in the parser, and its error
flattenGroups(p) == flattenGroupsFrom(p, p.Policies, 1)

----------------------------------------------------------------------------
(* The parsers: loading the policies *)

RawPolicy(id, priority, src, dst, svcs, action, enabled) ==
    [Policy(id, priority, <<>>, <<>>, <<>>, action, enabled)
        EXCEPT !.RawSrcAddrNames = src, !.RawDstAddrNames = dst, !.RawSvcNames = svcs]

\* an axis the source gave no name for stands for "all"
defaultAll(names) == IF Len(names) = 0 THEN <<"all">> ELSE names

\* An axis of a policy in its source is <<>> when the source omits it (no
\* set line; a column that holds no JSON array) and <<names>> when the
\* source gives the list names, which may be empty (a set line without
\* arguments; the JSON array []).

\* the raw names the set line of an axis appends: its arguments, and one
\* empty string when it has none (strings.Split of the empty string)
setLine(axis) ==
    IF Len(axis) = 0 THEN <<>>
    ELSE IF Len(axis[1]) = 0 THEN <<"">>
    ELSE axis[1]

\* json.Unmarshal into the raw name list: nil unless the column is an array
Unmarshal(axis) == IF Len(axis) = 0 THEN <<>> ELSE axis[1]

\* FortiGateParser.parsePolicyConfig on the entries <<id, srcaddr, dstaddr,
\* service, action, status>> of a policy block: the priority is the edit id
parsePolicyConfig(entries) ==
    [k \in 1 .. Len(entries) |->
        RawPolicy(ToString(entries[k][1]), entries[k][1],
                  defaultAll(setLine(entries[k][2])), defaultAll(setLine(entries[k][3])),
                  defaultAll(setLine(entries[k][4])), entries[k][5],
                  entries[k][6] = "enable")]

\* MariaDBParser.loadPolicies on the rows <<priority, policy_id, src_objects,
\* dst_objects, service_objects, action, is_enabled>> of cfg_policy
loadPolicies(rows) ==
    SliceStable([k \in 1 .. Len(rows) |->
        RawPolicy(ToString(rows[k][2]), rows[k][1],
                  defaultAll(Unmarshal(rows[k][3])), defaultAll(Unmarshal(rows[k][4])),
                  defaultAll(Unmarshal(rows[k][5])), rows[k][6], rows[k][7] = "enable")])

----------------------------------------------------------------------------
(* The configurations the parsers are run on *)

MaxMembers == 3

ConfigAddressObjects == [n \in {"lan", "rng4"} |-> IF n = "lan" THEN lan ELSE rng4]

\* a FortiGate configuration defines its custom services; MariaDBParser has
\* no loader for ServiceObjects and leaves the map empty
ConfigServiceObjects(prov) ==
    IF prov = "fortigate"
    THEN [n \in {"tcp_1", "udp_1-2"} |->
            IF n = "tcp_1" THEN ServiceObject(n, "tcp", 1, 1)
            ELSE ServiceObject(n, "udp", 1, 2)]
    ELSE <<>>

AddrGroupNames == {"A", "B"}
SvcGroupNames == {"SA", "SB"}
AddrMemberNames == {"A", "B", "lan", "ALL"}
SvcMemberNames == {"SA", "SB", "tcp_1", "ALL"}

\* policy blocks of a FortiGate configuration, in file order
FortiGateConfigs ==
    { << <<1, <<<<"A">>>>, <<<<"ALL">>>>, <<<<"SA">>>>, "accept", "enable">> >>,
      << <<2, <<<<"lan">>>>, <<<<"B">>>>, <<<<"tcp_1">>>>, "deny", "enable">>,
         <<1, <<<<"B", "A">>>>, <<>>, <<<<"SB", "SA">>>>, "accept", "enable">> >>,
      << <<1, <<<<>>>>, <<>>, <<>>, "accept", "enable">>,
         <<2, <<>>, <<>>, <<<<>>>>, "deny", "enable">> >> }

\* cfg_policy tables, in the order of the query (by priority)
MariaDBTables ==
    { << <<1, 7, <<<<"All">>>>, <<<<"A">>>>, <<<<"all">>>>, "accept", "enable">>,
         <<2, 3, <<<<"rng4", "ghost">>>>, <<<<"B">>>>, <<<<"dns", "tcp_1", "SB", "tcp_0">>>>,
           "deny", "enable">> >>,
      << <<1, 1, <<<<"A">>>>, <<<<"B">>>>, <<<<"SA">>>>, "deny", "disable">>,
         <<1, 2, <<<<"lan", "A">>>>, <<<<"rng4", "B">>>>, <<<<"SA", "udp_1-2">>>>,
           "accept", "enable">> >>,
      << <<1, 1, <<<<>>>>, <<>>, <<>>, "accept", "enable">>,
         <<2, 2, <<>>, <<>>, <<<<>>>>, "deny", "enable">> >> }

FlatTasks ==
    { Task(V4(1), V4(1), 1, "tcp"), Task(LastV4, V4(1), 1, "tcp"),
      Task(V4(1), LastV4, 2, "udp"), Task(LastV4, LastV4, 2, "tcp") }

GroupSize(grps, g) == IF g \in DOMAIN grps THEN Len(grps[g]) ELSE 0

\* the member names the configuration has spent on its groups
TotalMembers ==
    GroupSize(AddrGrps, "A") + GroupSize(AddrGrps, "B")
    + GroupSize(SvcGrps, "SA") + GroupSize(SvcGrps, "SB")

MemberLists(names, k) == UNION { [1 .. n -> names] : n \in 1 .. k }

----------------------------------------------------------------------------
(* Loading the rules: the groups are read, then the policies are read and  *)
(* flattened, and run() builds the evaluator from what loadPolicies        *)
(* returned, or returns its error.                                         *)

FlatInit ==
    /\ phase = "config"
    /\ EvalIdle
    /\ FlatIdle
    /\ PipeIdle

\* parseAddrGrpConfig / loadAddressGroups read one group
DefineAddrGroup ==
    /\ phase = "config"
    /\ \E g \in AddrGroupNames \ DOMAIN AddrGrps :
         \E members \in MemberLists(AddrMemberNames, MaxMembers - TotalMembers) :
            AddrGrps' = (g :> members) @@ AddrGrps
    /\ UNCHANGED <<provider, SvcGrps, parsed, flatErr, rules>>
    /\ UNCHANGED evalVars
    /\ UNCHANGED pipeVars

\* parseServiceGroupConfig / loadServiceGroups read one group
DefineSvcGroup ==
    /\ phase = "config"
    /\ \E g \in SvcGroupNames \ DOMAIN SvcGrps :
         \E members \in MemberLists(SvcMemberNames, MaxMembers - TotalMembers) :
            SvcGrps' = (g :> members) @@ SvcGrps
    /\ UNCHANGED <<provider, AddrGrps, parsed, flatErr, rules>>
    /\ UNCHANGED evalVars
    /\ UNCHANGED pipeVars

\* what loadPolicies of the command does with the parser p once the groups
\* are read: Parse flattens, and the policies are returned unless it failed
ParseWith(p, source) ==
    \E r \in {flattenGroups(p)} :
    /\ provider' = p.Provider
    /\ rules' = source
    /\ parsed' = r.Policies
    /\ flatErr' = r.err
    /\ input' = IF r.err = NoErr THEN r.Policies ELSE input
    /\ phase' = IF r.err = NoErr THEN "load" ELSE "failed"
    /\ UNCHANGED <<AddrGrps, SvcGrps>>
    /\ UNCHANGED <<Policies, precheckIndex, broadPolicies, task, result, query, presult>>
    /\ UNCHANGED pipeVars

ParseFortiGate ==
    /\ phase = "config"
    /\ \E entries \in FortiGateConfigs :
         \E p \in {Parser("fortigate", ConfigAddressObjects,
                         ConfigServiceObjects("fortigate"), AddrGrps, SvcGrps,
                         parsePolicyConfig(entries))} : ParseWith(p, entries)

ParseMariaDB ==
    /\ phase = "config"
    /\ \E rows \in MariaDBTables :
         \E p \in {Parser("mariadb", ConfigAddressObjects,
                         ConfigServiceObjects("mariadb"), AddrGrps, SvcGrps,
                         loadPolicies(rows))} : ParseWith(p, rows)

EvaluateFlat == EvaluateIn(FlatTasks)

FlatNext ==
    DefineAddrGroup \/ DefineSvcGroup \/ ParseFortiGate \/ ParseMariaDB
    \/ NewEvaluator \/ EvaluateFlat

SpecFlat == FlatInit /\ [][FlatNext]_vars

----------------------------------------------------------------------------
(* Claims about flattening *)

\* the parser as the run configured it, with its groups replaced
ParserOf(addrGrps, svcGrps) ==
    Parser(provider, ConfigAddressObjects, ConfigServiceObjects(provider),
           addrGrps, svcGrps, parsed)

IsAllName(n) == ToLower(n) = "all"

\* the member names of the group n; the reserved name has none
MembersOf(grps, n) ==
    IF IsAllName(n) \/ n \notin DOMAIN grps THEN {}
    ELSE { grps[n][k] : k \in DOMAIN grps[n] }

RECURSIVE ReachFrom(_, _, _)
ReachFrom(grps, frontier, seen) ==
    LET next == (UNION { MembersOf(grps, n) : n \in frontier }) \ seen IN
    IF next = {} THEN seen ELSE ReachFrom(grps, next, seen \cup next)

\* the names reachable from n through group membership, n included
Reach(grps, n) == ReachFrom(grps, {n}, {n})

OnCycle(grps, g) == \E m \in MembersOf(grps, g) : g \in Reach(grps, m)

ReachesCycle(grps, n) == \E g \in Reach(grps, n) : OnCycle(grps, g)

SeqRange(s) == { s[k] : k \in DOMAIN s }

CyclicPolicy(policy) ==
    \/ \E n \in SeqRange(policy.RawSrcAddrNames) : ReachesCycle(AddrGrps, n)
    \/ \E n \in SeqRange(policy.RawDstAddrNames) : ReachesCycle(AddrGrps, n)
    \/ \E n \in SeqRange(policy.RawSvcNames) : ReachesCycle(SvcGrps, n)

\* C7: when a raw address or service name of some policy reaches a group
\* reference cycle, flattenGroups returns a circular-dependency error; the
\* error names the first such policy of the parser, one of its raw names, and
\* a group on a cycle that this name reaches; Parse fails and the evaluator
\* gets no policy.  Without such a policy flattening does not fail.
C7_CycleFails ==
    phase # "config" =>
        LET bad == { k \in DOMAIN parsed : CyclicPolicy(parsed[k]) } IN
        IF bad # {}
        THEN /\ phase = "failed"
             /\ flatErr # NoErr
             /\ flatErr.cause.msg = "circular dependency detected"
             /\ flatErr.policy = parsed[First(bad)].ID
             /\ LET policy == parsed[First(bad)]
                    grps == IF flatErr.cause.kind = "address" THEN AddrGrps ELSE SvcGrps
                    names == CASE flatErr.axis = "srcaddr" -> policy.RawSrcAddrNames
                               [] flatErr.axis = "dstaddr" -> policy.RawDstAddrNames
                               [] flatErr.axis = "service" -> policy.RawSvcNames
                IN /\ (flatErr.cause.kind = "service") = (flatErr.axis = "service")
                   /\ flatErr.name \in SeqRange(names)
                   /\ flatErr.cause.group \in Reach(grps, flatErr.name)
                   /\ OnCycle(grps, flatErr.cause.group)
             /\ input = <<>>
             /\ Policies = <<>>
        ELSE phase # "failed" /\ flatErr = NoErr

\* the groups A = [B], B = [A] and a policy whose source is A
C7_Witness ==
    /\ phase = "failed"
    /\ DOMAIN AddrGrps = {"A", "B"}
    /\ AddrGrps["A"] = <<"B">>
    /\ AddrGrps["B"] = <<"A">>
    /\ flatErr.name = "A"
    /\ flatErr.axis = "srcaddr"
    /\ flatErr.cause.group = "A"

\* the orders of the sequence s
Perms(s) == { [k \in 1 .. Len(s) |-> s[pi[k]]] : pi \in Permutations(1 .. Len(s)) }

\* the group maps that differ from grps in the member order of groups that
\* are on no cycle
Reordered(grps) ==
    { f \in [DOMAIN grps -> UNION { Perms(grps[g]) : g \in DOMAIN grps }] :
        \A g \in DOMAIN grps :
            IF OnCycle(grps, g) THEN f[g] = grps[g] ELSE f[g] \in Perms(grps[g]) }

\* C8: with the member lists of the groups that are on no cycle put in any
\* other order, flattening succeeds as well and Evaluate returns the same
\* decision, matched policy id and reason for the task.
C8_OrderIndependent ==
    phase = "evaluated" =>
        \A a \in Reordered(AddrGrps), s \in Reordered(SvcGrps) :
            LET r == flattenGroups(ParserOf(a, s))
                e == Evaluate(SliceStable(r.Policies), task)
            IN /\ r.err = NoErr
               /\ e.Decision = result.Decision
               /\ e.MatchedPolicyID = result.MatchedPolicyID
               /\ e.Reason = result.Reason

\* the source group lists an object that does not cover the task before the
\* name that does, and the policy is matched through it
C8_Witness ==
    /\ phase = "evaluated"
    /\ "A" \in DOMAIN AddrGrps
    /\ AddrGrps["A"] = <<"lan", "ALL">>
    /\ Cardinality(Reordered(AddrGrps)) >= 2
    /\ Policies[1].RawSrcAddrNames = <<"A">>
    /\ ~Contains(lan.IPNet, task.SrcIP)
    /\ result.Decision = "ALLOW"
    /\ result.MatchedPolicyID = Policies[1].ID

NameUniverse ==
    {"all", "ALL", "All", "A", "B", "SA", "SB", "lan", "rng4", "ghost",
     "tcp_1", "udp_1-2", "dns"}

ProbeIPs == {0, V4(0), LastV4, MaxIP}
ProbePorts == {0, 1, 2, 65535}
ProbeTasks ==
    { Task(s, d, port, proto) :
        s \in ProbeIPs, d \in ProbeIPs, port \in ProbePorts, proto \in Protocols }

\* C10: a name that is "all" up to letter case flattens to the universal
\* sentinel, as a raw name and as a group member, on the address and on the
\* service axis; an enabled policy with the sentinel on its three axes matches
\* every tcp or udp task.
C10_SentinelAbsorbs ==
    /\ phase # "config" =>
         \A n \in NameUniverse :
            IsAllName(n) =>
                /\ flattenAddrGroup(ParserOf(AddrGrps, SvcGrps), n, {})
                     = Flat(<<allAddr>>, NoErr, {})
                /\ flattenSvcGroup(ParserOf(AddrGrps, SvcGrps), n, {})
                     = Flat(<<allSvc>>, NoErr, {})
    /\ phase = "ready" =>
         \A k \in DOMAIN Policies :
            LET policy == Policies[k] IN
            /\ (\E n \in SeqRange(policy.RawSrcAddrNames) :
                   \E m \in Reach(AddrGrps, n) : IsAllName(m))
                 => allAddr \in SeqRange(policy.SrcAddrs)
            /\ (\E n \in SeqRange(policy.RawDstAddrNames) :
                   \E m \in Reach(AddrGrps, n) : IsAllName(m))
                 => allAddr \in SeqRange(policy.DstAddrs)
            /\ (\E n \in SeqRange(policy.RawSvcNames) :
                   \E m \in Reach(SvcGrps, n) : IsAllName(m))
                 => allSvc \in SeqRange(policy.Services)
            /\ ( /\ policy.Enabled
                 /\ allAddr \in SeqRange(policy.SrcAddrs)
                 /\ allAddr \in SeqRange(policy.DstAddrs)
                 /\ allSvc \in SeqRange(policy.Services) )
                 => \A t \in ProbeTasks : matches(policy, t)

\* the three axes of a policy reach the sentinel through "All", through a
\* group whose member is "ALL", and through "all"; the policy is the match
C10_Witness ==
    /\ phase = "evaluated"
    /\ "A" \in DOMAIN AddrGrps
    /\ AddrGrps["A"] = <<"ALL">>
    /\ \E k \in DOMAIN Policies :
         /\ Policies[k].RawSrcAddrNames = <<"All">>
         /\ Policies[k].RawDstAddrNames = <<"A">>
         /\ Policies[k].SrcAddrs = <<allAddr>>
         /\ Policies[k].DstAddrs = <<allAddr>>
         /\ Policies[k].Services = <<allSvc>>
         /\ result.MatchedPolicyID = Policies[k].ID
         /\ result.Decision = "ALLOW"

----------------------------------------------------------------------------
(* The pipeline of the command: channels, sinks, records                   *)

\* the largest --workers of a run
MaxWorkers == 2
\* the channel capacity per worker (100 in the command)
ChanFactor == 1
\* the number of records between two stores of the counter (1024 in the command)
BatchSize == 2
\* the number of records the buffer of a csv.Writer holds
BufRecords == 2

\* the producer is followed for this many sends, which is the largest number
\* of tasks of a traffic input whose enumeration ends
MaxTasks == 6

\* a send that loses the value
SendDrop(ch, x) == ch

\* ch <- x, once the buffer has room
Send(ch, x) == [ch EXCEPT !.buf = Append(@, x)]

\* the channel after a receive took the value at its head
Recv(ch) == [ch EXCEPT !.buf = Tail(@)]

\* a channel without a limit
CanSendAlways(ch) == TRUE

\* the send does not block
CanSend(ch) == Len(ch.buf) < ch.cap

\* os.Create and csv.NewWriter on the file
Create == [created |-> TRUE, file |-> <<>>, buf |-> <<>>, closed |-> FALSE]

\* a flush that loses the buffer
FlushDrop(f) == [f EXCEPT !.buf = <<>>]

\* csv.Writer.Flush: the buffer goes to the file
Flush(f) == [f EXCEPT !.file = @ \o f.buf, !.buf = <<>>]

\* csv.Writer.Write: the record is buffered, a full buffer is written out
\* first.  The writer ignores what Write returns; a write to a created file
\* is taken to succeed.
Write(f, rec) ==
    IF Len(f.buf) >= BufRecords
      THEN [f EXCEPT !.file = @ \o f.buf, !.buf = <<rec>>]
      ELSE [f EXCEPT !.buf = Append(@, rec)]

\* os.File.Close
Close(f) == [f EXCEPT !.closed = TRUE]

Destination(ipnet, meta) == [IPNet |-> ipnet, Metadata |-> meta]

PortInfo(label, port, proto) == [Label |-> label, Port |-> port, Protocol |-> proto]

InputTraffic(src, dst, ports) == [SrcIPs |-> src, DstIPs |-> dst, Ports |-> ports]

\* the width of the uint64 CIDRSize computes in, between the two address widths
SizeBits == V4Bits + 1

\* utils.CIDRSize: 1 << (bits - ones) in a uint64
CIDRSize(n) == (2 ^ (n.Bits - n.Ones)) % (2 ^ SizeBits)

\* utils.Inc on an address of the given length: the carry is lost at the top
Inc(ip, bits) ==
    IF bits = V4Bits THEN V4(((ip - V4Base) + 1) % (2 ^ V4Bits))
    ELSE (ip + 1) % (2 ^ V6Bits)

\* n.IP.Mask(n.Mask)
networkStart(n) == MaskIP(n.IP, n.Bits - n.Ones)

\* net.IPNet.String: the address and the prefix length, which for an IPv4
\* network is counted in the 4-byte mask
NetString(n) ==
    ToString(n.IP) \o "/" \o
    ToString(IF IsV4(n.IP) /\ n.Bits = V6Bits THEN n.Ones - (V6Bits - V4Bits) ELSE n.Ones)

\* the expand flag of a network
expand(fl, n) ==
    fl.matchMode = "expand" /\ CIDRSize(n) > 1 /\ CIDRSize(n) <= fl.maxHosts

\* the sum of srcCount (of dstCount) over the networks from the i-th on
RECURSIVE estimateCount(_, _, _)
estimateCount(fl, nets, i) ==
    IF i > Len(nets) THEN 0
    ELSE (IF expand(fl, nets[i]) THEN CIDRSize(nets[i]) ELSE 1)
         + estimateCount(fl, nets, i + 1)

\* the sum of srcCount * dstCount over sources, destinations and ports, in a uint64
estimateTotalTasks(tr, fl) ==
    (estimateCount(fl, tr.SrcIPs, 1)
       * estimateCount(fl, [i \in 1 .. Len(tr.DstIPs) |-> tr.DstIPs[i].IPNet], 1)
       * Len(tr.Ports)) % (2 ^ SizeBits)

----------------------------------------------------------------------------
(* The producer's loops.  A position is the place of the next send: the    *)
(* source network and address, the destination network and address, and    *)
(* the port entry; NoPos is the place after the last loop.                 *)

RECURSIVE srcEnter(_, _, _)
RECURSIVE srcLoop(_, _, _, _)
RECURSIVE srcTail(_, _, _, _)
RECURSIVE dstEnter(_, _, _, _, _)
RECURSIVE dstLoop(_, _, _, _, _, _)
RECURSIVE dstTail(_, _, _, _, _, _)

\* for _, si := range srcInfos, from the si-th network on
srcEnter(tr, fl, si) ==
    IF si > Len(tr.SrcIPs) THEN NoPos
    ELSE srcLoop(tr, fl, si, networkStart(tr.SrcIPs[si]))

\* the condition of the source address loop, and its body up to the first send
srcLoop(tr, fl, si, sip) ==
    IF ~Contains(tr.SrcIPs[si], sip) THEN srcEnter(tr, fl, si + 1)
    ELSE dstEnter(tr, fl, si, sip, 1)

\* the end of the body of the source address loop
srcTail(tr, fl, si, sip) ==
    IF ~expand(fl, tr.SrcIPs[si]) THEN srcEnter(tr, fl, si + 1)
    ELSE srcLoop(tr, fl, si, Inc(sip, tr.SrcIPs[si].Bits))

\* for _, di := range dstInfos, from the di-th destination on
dstEnter(tr, fl, si, sip, di) ==
    IF di > Len(tr.DstIPs) THEN srcTail(tr, fl, si, sip)
    ELSE dstLoop(tr, fl, si, sip, di, networkStart(tr.DstIPs[di].IPNet))

\* the condition of the destination address loop, and its body up to the first send
dstLoop(tr, fl, si, sip, di, dip) ==
    IF ~Contains(tr.DstIPs[di].IPNet, dip) THEN dstEnter(tr, fl, si, sip, di + 1)
    ELSE IF Len(tr.Ports) = 0 THEN dstTail(tr, fl, si, sip, di, dip)
    ELSE [si |-> si, sip |-> sip, di |-> di, dip |-> dip, pi |-> 1]

\* the end of the body of the destination address loop
dstTail(tr, fl, si, sip, di, dip) ==
    IF ~expand(fl, tr.DstIPs[di].IPNet) THEN dstEnter(tr, fl, si, sip, di + 1)
    ELSE dstLoop(tr, fl, si, sip, di, Inc(dip, tr.DstIPs[di].IPNet.Bits))

\* the place of the send that follows the send at pos
afterSend(tr, fl, pos) ==
    IF pos.pi < Len(tr.Ports) THEN [pos EXCEPT !.pi = @ + 1]
    ELSE dstTail(tr, fl, pos.si, pos.sip, pos.di, pos.dip)

\* the model.Task sent at pos
taskAt(tr, pos) ==
    [SrcIP |-> pos.sip,
     SrcCIDR |-> NetString(tr.SrcIPs[pos.si]),
     DstIP |-> pos.dip,
     DstCIDR |-> NetString(tr.DstIPs[pos.di].IPNet),
     DstMeta |-> tr.DstIPs[pos.di].Metadata,
     Port |-> tr.Ports[pos.pi].Port,
     Proto |-> tr.Ports[pos.pi].Protocol,
     ServiceLabel |-> tr.Ports[pos.pi].Label]

----------------------------------------------------------------------------
(* The worker's and the writer's loop bodies *)

\* task.DstMeta[key], the zero string when the key is absent
metaValue(meta, key) == IF key \in DOMAIN meta THEN meta[key] ELSE ""

\* the body of the worker's loop: Evaluate, then the output fields
workerResult(policies, t) ==
    Bind(Evaluate(policies, t), LAMBDA r :
      [SrcNetworkSegment |-> t.SrcCIDR,
       DstNetworkSegment |-> t.DstCIDR,
       DstGn |-> metaValue(t.DstMeta, "dst_gn"),
       DstSite |-> metaValue(t.DstMeta, "dst_site"),
       DstLocation |-> metaValue(t.DstMeta, "dst_location"),
       ServiceLabel |-> t.ServiceLabel,
       Protocol |-> t.Proto,
       Port |-> t.Port,
       Decision |-> r.Decision,
       MatchedPolicyID |-> r.MatchedPolicyID,
       MatchedPolicyAction |-> r.MatchedPolicyAction,
       Reason |-> r.Reason,
       SrcIP |-> r.SrcIP,
       DstIP |-> r.DstIP,
       FlowCount |-> r.FlowCount])

header ==
    <<"src_network_segment", "dst_network_segment", "dst_gn", "dst_site",
      "dst_location", "service_label", "protocol", "port", "decision",
      "matched_policy_id", "matched_policy_action", "reason">>

\* the record the writer builds from a result
record(r) ==
    <<r.SrcNetworkSegment, r.DstNetworkSegment, r.DstGn, r.DstSite, r.DstLocation,
      r.ServiceLabel, r.Protocol, ToString(r.Port), r.Decision, r.MatchedPolicyID,
      r.MatchedPolicyAction, r.Reason>>

\* the accepted-only sink given every record
routableWriteAll(f, r) == Write(f, record(r))

\* if result.Decision == "ALLOW" { routableWriter.Write(record) }
routableWrite(f, r) == IF r.Decision = "ALLOW" THEN Write(f, record(r)) ELSE f

----------------------------------------------------------------------------
(* The runs of the pipeline: rule tables, traffic inputs, flags *)

\* the rule tables loadPolicies of the command returns
RuleTables ==
    { << Policy("1", 1, <<lan>>, <<allAddr>>, <<tcp1>>, "deny", TRUE),
         Policy("2", 2, <<allAddr>>, <<allAddr>>, <<allSvc>>, "accept", TRUE) >> }

\* the traffic inputs: networks of two IPv4 addresses (pair4), of one IPv4
\* address (host4), of one IPv6 address (host6) and of every IPv4 address
\* (whole4, the network 0.0.0.0/0); a destination row with the gn and site
\* columns and one with the network column only
TrafficInputs ==
    LET pair4 == Net(V4(0), V4Bits - 1, V4Bits)
        whole4 == Net(V4(0), 0, V4Bits)
        host4 == Net(V4(1), V4Bits, V4Bits)
        host6 == Net(MaxIP, V6Bits, V6Bits)
        whole6 == Net(0, 0, V6Bits)
        metaFull == ("dst_network segment" :> "d1") @@ ("dst_gn" :> "gn1")
                      @@ ("dst_site" :> "s1")
        metaBare == ("dst_network segment" :> "d2")
    IN { InputTraffic(<<pair4>>, <<Destination(host4, metaFull)>>,
                      <<PortInfo("svc", 1, "tcp"), PortInfo("2/udp", 2, "udp"),
                        PortInfo("3/tcp", 3, "tcp")>>),
         InputTraffic(<<host4, host6>>, <<Destination(pair4, metaBare)>>,
                      <<PortInfo("1/tcp", 1, "tcp")>>),
         InputTraffic(<<whole4>>, <<Destination(host4, metaBare)>>,
                      <<PortInfo("1/tcp", 1, "tcp")>>),
         InputTraffic(<<whole6>>, <<Destination(host4, metaBare)>>,
                      <<PortInfo("1/tcp", 1, "tcp")>>) }

tableVars == <<input, Policies, precheckIndex, broadPolicies, task, result, query, presult>>
runVars == <<flags, traffic, totalTasks>>

----------------------------------------------------------------------------
(* run as a state machine: the rules are loaded, the evaluator is built,   *)
(* the inputs are parsed, and the writer, the workers and the producer     *)
(* are started; run then waits for the workers and for the writer.         *)

PipeInit ==
    /\ phase = "load"
    /\ EvalIdle
    /\ FlatIdle
    /\ PipeIdle

\* loadPolicies returned a rule table
LoadRules ==
    /\ phase = "load"
    /\ input = <<>>
    /\ input' \in RuleTables
    /\ UNCHANGED <<phase, Policies, precheckIndex, broadPolicies, task, result, query, presult>>
    /\ UNCHANGED flatVars
    /\ UNCHANGED pipeVars

\* loadPolicies returned an error, or an input file cannot be opened or
\* parsed: run returns the error
RunError ==
    /\ \/ phase = "load" /\ input = <<>>
       \/ phase = "ready"
    /\ phase' = "failed"
    /\ outcome' = "error"
    /\ UNCHANGED tableVars
    /\ UNCHANGED flatVars
    /\ UNCHANGED <<runVars, tasks, results, producer, worker, coord, writer, outFile,
                   routableFile, completedTasks, progress, sent, received, got>>

\* steps 4 to 9 of run: the inputs are parsed, the estimate is taken, the
\* channels are made and the goroutines are started
StartPipeline ==
    /\ phase = "ready"
    /\ \E tr \in TrafficInputs, mode \in {"sample", "expand"}, mh \in {1, 2 ^ V4Bits},
          w \in 0 .. MaxWorkers :
         \E fl \in {[workers |-> w, matchMode |-> mode, maxHosts |-> mh]} :
         \E total \in {estimateTotalTasks(tr, fl)} :
           /\ flags' = fl
           /\ traffic' = tr
           /\ totalTasks' = total
           /\ progress' = [pc |-> IF total > 0 THEN "running" ELSE "off", lastLogged |-> 0]
           /\ tasks' = Chan(w * ChanFactor)
           /\ results' = Chan(w * ChanFactor)
           /\ writer' = [pc |-> "create", written |-> 0]
           /\ worker' = [i \in 1 .. w |-> [pc |-> "range", result |-> NoResult]]
           /\ producer' = [pc |-> "loop", pos |-> srcEnter(tr, fl, 1), taskCount |-> 0]
    /\ coord' = "wait"
    /\ phase' = "pipeline"
    /\ UNCHANGED tableVars
    /\ UNCHANGED flatVars
    /\ UNCHANGED <<outFile, routableFile, completedTasks, sent, received, got, outcome>>

\* tasks <- model.Task{...}; taskCount++, and the loops up to the next send
ProducerSend ==
    /\ phase = "pipeline"
    /\ producer.pc = "loop"
    /\ producer.pos # NoPos
    /\ producer.taskCount < MaxTasks
    /\ CanSend(tasks)
    /\ \E t \in {taskAt(traffic, producer.pos)} :
         /\ tasks' = Send(tasks, t)
         /\ sent' = Append(sent, t)
    /\ producer' = [producer EXCEPT !.pos = afterSend(traffic, flags, @),
                                    !.taskCount = @ + 1]
    /\ UNCHANGED <<phase, tableVars>>
    /\ UNCHANGED flatVars
    /\ UNCHANGED <<runVars, results, worker, coord, writer, outFile, routableFile,
                   completedTasks, progress, received, got, outcome>>

\* close(tasks), after the loops
ProducerClose ==
    /\ phase = "pipeline"
    /\ producer.pc = "loop"
    /\ producer.pos = NoPos
    /\ tasks' = [tasks EXCEPT !.closed = TRUE]
    /\ producer' = [producer EXCEPT !.pc = "done"]
    /\ UNCHANGED <<phase, tableVars>>
    /\ UNCHANGED flatVars
    /\ UNCHANGED <<runVars, results, worker, coord, writer, outFile, routableFile,
                   completedTasks, progress, sent, received, got, outcome>>

\* a worker whose evaluation writes to the policy it matched first
WorkerReceiveWrites(w) ==
    /\ phase = "pipeline"
    /\ worker[w].pc = "range"
    /\ Len(tasks.buf) > 0
    /\ \E t \in {Head(tasks.buf)} :
         /\ worker' = [worker EXCEPT ![w] = [pc |-> "send",
                                            result |-> workerResult(Policies, t)]]
         /\ received' = Append(received, t)
    /\ tasks' = Recv(tasks)
    /\ Policies' = [Policies EXCEPT ![1].Enabled = FALSE]
    /\ UNCHANGED <<phase, input, precheckIndex, broadPolicies, task, result, query, presult>>
    /\ UNCHANGED flatVars
    /\ UNCHANGED <<runVars, results, producer, coord, writer, outFile, routableFile,
                   completedTasks, progress, sent, got, outcome>>

\* for task := range tasks: a task is received, evaluated and decorated
WorkerReceive(w) ==
    /\ phase = "pipeline"
    /\ worker[w].pc = "range"
    /\ Len(tasks.buf) > 0
    /\ \E t \in {Head(tasks.buf)} :
         /\ worker' = [worker EXCEPT ![w] = [pc |-> "send",
                                            result |-> workerResult(Policies, t)]]
         /\ received' = Append(received, t)
    /\ tasks' = Recv(tasks)
    /\ UNCHANGED <<phase, tableVars>>
    /\ UNCHANGED flatVars
    /\ UNCHANGED <<runVars, results, producer, coord, writer, outFile, routableFile,
                   completedTasks, progress, sent, got, outcome>>

\* results <- result; a send on a closed channel panics
WorkerSend(w) ==
    /\ phase = "pipeline"
    /\ worker[w].pc = "send"
    /\ \/ /\ results.closed
          /\ phase' = "failed"
          /\ outcome' = "panic"
          /\ UNCHANGED <<results, worker>>
       \/ /\ ~results.closed
          /\ CanSend(results)
          /\ results' = Send(results, worker[w].result)
          /\ worker' = [worker EXCEPT ![w] = [pc |-> "range", result |-> NoResult]]
          /\ UNCHANGED <<phase, outcome>>
    /\ UNCHANGED tableVars
    /\ UNCHANGED flatVars
    /\ UNCHANGED <<runVars, tasks, producer, coord, writer, outFile, routableFile,
                   completedTasks, progress, sent, received, got>>

\* the range loop ends on the closed and drained channel; wg.Done
WorkerExit(w) ==
    /\ phase = "pipeline"
    /\ worker[w].pc = "range"
    /\ Len(tasks.buf) = 0
    /\ tasks.closed
    /\ worker' = [worker EXCEPT ![w] = [pc |-> "done", result |-> NoResult]]
    /\ UNCHANGED <<phase, tableVars>>
    /\ UNCHANGED flatVars
    /\ UNCHANGED <<runVars, tasks, results, producer, coord, writer, outFile,
                   routableFile, completedTasks, progress, sent, received, got, outcome>>

\* a coordinator that closes the result channel without waiting for the workers
CoordCloseEarly ==
    /\ phase = "pipeline"
    /\ coord = "wait"
    /\ results' = [results EXCEPT !.closed = TRUE]
    /\ coord' = "writerWait"
    /\ UNCHANGED <<phase, tableVars>>
    /\ UNCHANGED flatVars
    /\ UNCHANGED <<runVars, tasks, producer, worker, writer, outFile, routableFile,
                   completedTasks, progress, sent, received, got, outcome>>

\* wg.Wait returns; close(results)
CoordClose ==
    /\ phase = "pipeline"
    /\ coord = "wait"
    /\ \A w \in DOMAIN worker : worker[w].pc = "done"
    /\ results' = [results EXCEPT !.closed = TRUE]
    /\ coord' = "writerWait"
    /\ UNCHANGED <<phase, tableVars>>
    /\ UNCHANGED flatVars
    /\ UNCHANGED <<runVars, tasks, producer, worker, writer, outFile, routableFile,
                   completedTasks, progress, sent, received, got, outcome>>

\* writerWg.Wait returns; close(progressDone); return nil
CoordReturn ==
    /\ phase = "pipeline"
    /\ coord = "writerWait"
    /\ writer.pc \in {"done", "failed"}
    /\ coord' = "returned"
    /\ phase' = "returned"
    /\ outcome' = "ok"
    /\ UNCHANGED tableVars
    /\ UNCHANGED flatVars
    /\ UNCHANGED <<runVars, tasks, results, producer, worker, writer, outFile,
                   routableFile, completedTasks, progress, sent, received, got>>

\* os.Create fails for the first or for the second file: the writer logs,
\* closes what it created and returns; wg.Done
WriterCreateFail ==
    /\ phase = "pipeline"
    /\ writer.pc = "create"
    /\ \E second \in BOOLEAN :
         outFile' = IF second THEN Close(Create) ELSE outFile
    /\ writer' = [writer EXCEPT !.pc = "failed"]
    /\ UNCHANGED <<phase, tableVars>>
    /\ UNCHANGED flatVars
    /\ UNCHANGED <<runVars, tasks, results, producer, worker, coord, routableFile,
                   completedTasks, progress, sent, received, got, outcome>>

\* both files are created and the header is written to both
WriterOpen ==
    /\ phase = "pipeline"
    /\ writer.pc = "create"
    /\ outFile' = Write(Create, header)
    /\ routableFile' = Write(Create, header)
    /\ writer' = [writer EXCEPT !.pc = "loop"]
    /\ UNCHANGED <<phase, tableVars>>
    /\ UNCHANGED flatVars
    /\ UNCHANGED <<runVars, tasks, results, producer, worker, coord,
                   completedTasks, progress, sent, received, got, outcome>>

\* for result := range results: one record to the total sink, one to the
\* accepted-only sink for an ALLOW, and the counter stored at each batch
WriterReceive ==
    /\ phase = "pipeline"
    /\ writer.pc = "loop"
    /\ Len(results.buf) > 0
    /\ \E r \in {Head(results.buf)} :
         /\ outFile' = Write(outFile, record(r))
         /\ routableFile' = routableWrite(routableFile, r)
         /\ got' = Append(got, r)
    /\ results' = Recv(results)
    /\ writer' = [writer EXCEPT !.written = @ + 1]
    /\ completedTasks' = IF (writer.written + 1) % BatchSize = 0
                           THEN writer.written + 1 ELSE completedTasks
    /\ UNCHANGED <<phase, tableVars>>
    /\ UNCHANGED flatVars
    /\ UNCHANGED <<runVars, tasks, producer, worker, coord, progress, sent, received,
                   outcome>>

\* a writer that ends without the final store
WriterFinishNoStore ==
    /\ phase = "pipeline"
    /\ writer.pc = "loop"
    /\ Len(results.buf) = 0
    /\ results.closed
    /\ outFile' = Close(Flush(outFile))
    /\ routableFile' = Close(Flush(routableFile))
    /\ writer' = [writer EXCEPT !.pc = "done"]
    /\ UNCHANGED <<phase, tableVars>>
    /\ UNCHANGED flatVars
    /\ UNCHANGED <<runVars, tasks, results, producer, worker, coord, progress,
                   completedTasks, sent, received, got, outcome>>

\* the range loop ends on the closed and drained channel: the final store,
\* then the deferred calls: both Flush, both Close, wg.Done
WriterFinish ==
    /\ phase = "pipeline"
    /\ writer.pc = "loop"
    /\ Len(results.buf) = 0
    /\ results.closed
    /\ completedTasks' = writer.written
    /\ outFile' = Close(Flush(outFile))
    /\ routableFile' = Close(Flush(routableFile))
    /\ writer' = [writer EXCEPT !.pc = "done"]
    /\ UNCHANGED <<phase, tableVars>>
    /\ UNCHANGED flatVars
    /\ UNCHANGED <<runVars, tasks, results, producer, worker, coord, progress,
                   sent, received, got, outcome>>

\* the ticker fires and the counter has moved: the progress line is logged
ProgressTick ==
    /\ phase = "pipeline"
    /\ progress.pc = "running"
    /\ completedTasks # progress.lastLogged
    /\ progress' = [pc |-> IF completedTasks >= totalTasks THEN "done" ELSE "running",
                    lastLogged |-> completedTasks]
    /\ UNCHANGED <<phase, tableVars>>
    /\ UNCHANGED flatVars
    /\ UNCHANGED <<runVars, tasks, results, producer, worker, coord, writer, outFile,
                   routableFile, completedTasks, sent, received, got, outcome>>

\* case <-progressDone
ProgressStop ==
    /\ phase = "returned"
    /\ progress.pc = "running"
    /\ progress' = [progress EXCEPT !.pc = "done"]
    /\ UNCHANGED <<phase, tableVars>>
    /\ UNCHANGED flatVars
    /\ UNCHANGED <<runVars, tasks, results, producer, worker, coord, writer, outFile,
                   routableFile, completedTasks, sent, received, got, outcome>>

PipeNext ==
    \/ LoadRules \/ NewEvaluator \/ RunError \/ StartPipeline
    \/ ProducerSend \/ ProducerClose
    \/ \E w \in DOMAIN worker : WorkerReceive(w)
    \/ \E w \in DOMAIN worker : WorkerSend(w)
    \/ \E w \in DOMAIN worker : WorkerExit(w)
    \/ CoordClose \/ CoordReturn
    \/ WriterCreateFail \/ WriterOpen \/ WriterReceive \/ WriterFinish
    \/ ProgressTick \/ ProgressStop

SpecPipe == PipeInit /\ [][PipeNext]_vars

\* run under a fair scheduler: a goroutine that can take a step takes it.
\* Whether os.Create succeeds is not the scheduler's choice, so neither
\* outcome of the writer's first step is fair on its own.
SpecPipeFair ==
    /\ SpecPipe
    /\ WF_vars(NewEvaluator) /\ WF_vars(StartPipeline)
    /\ WF_vars(ProducerSend) /\ WF_vars(ProducerClose)
    /\ \A w \in 1 .. MaxWorkers :
         /\ WF_vars(w \in DOMAIN worker /\ WorkerReceive(w))
         /\ WF_vars(w \in DOMAIN worker /\ WorkerSend(w))
         /\ WF_vars(w \in DOMAIN worker /\ WorkerExit(w))
    /\ WF_vars(CoordClose) /\ WF_vars(CoordReturn)
    /\ WF_vars(WriterOpen \/ WriterCreateFail)
    /\ WF_vars(WriterReceive) /\ WF_vars(WriterFinish)
    /\ WF_vars(ProgressTick) /\ WF_vars(ProgressStop)

----------------------------------------------------------------------------
(* Claims about the pipeline *)

\* what the file and the buffer of a sink hold together
Content(f) == f.file \o f.buf

\* the multiset of the elements of a sequence
BagOfSeq(q) ==
    [x \in { q[i] : i \in DOMAIN q } |-> Cardinality({ i \in DOMAIN q : q[i] = x })]

\* the results of a sequence of tasks, as a worker of this run computes them
ResultsOf(ts) == [i \in 1 .. Len(ts) |-> workerResult(Policies, ts[i])]

RecordsOf(rs) == [i \in 1 .. Len(rs) |-> record(rs[i])]

\* the results the workers hold between their receive and their send
Held ==
    LET busy == SelectSeq(worker, LAMBDA x : x.pc = "send")
    IN [i \in 1 .. Len(busy) |-> busy[i].result]

\* C5: pipeline conservation.  In a run with at least one worker whose
\* writer did not fail to create its sinks: the tasks sent are, in order,
\* the tasks received so far followed by the tasks waiting in the channel,
\* so each send is matched by at most one receive and no task is lost or
\* duplicated; the results of the received tasks are, as a multiset, the
\* results held by workers, waiting in the result channel, or received by
\* the writer, one per task; the writer has written one record to the total
\* sink per result it received; and when run has returned, every task sent
\* was received, and the total file holds the header and exactly one record
\* per emitted task: taskCount records, the multiset of the records of the
\* results of the tasks sent.
C5_Conservation ==
    (flags.workers >= 1 /\ writer.pc # "failed") =>
        /\ sent = received \o tasks.buf
        /\ Len(sent) = producer.taskCount
        /\ BagOfSeq(ResultsOf(received)) = BagOfSeq(Held \o results.buf \o got)
        /\ writer.pc \in {"loop", "done"} =>
             /\ writer.written = Len(got)
             /\ Len(Content(outFile)) = 1 + Len(got)
        /\ outcome = "ok" =>
             /\ producer.pc = "done"
             /\ received = sent
             /\ Len(outFile.file) = 1 + producer.taskCount
             /\ BagOfSeq(Tail(outFile.file)) = BagOfSeq(RecordsOf(ResultsOf(sent)))

\* a run of the largest number of workers has returned after three or more
\* tasks, and the writer received the results in another order than the
\* order of emission
C5_Witness ==
    /\ outcome = "ok"
    /\ flags.workers = MaxWorkers
    /\ writer.pc = "done"
    /\ producer.taskCount >= 3
    /\ Len(outFile.file) = 1 + producer.taskCount
    /\ got # ResultsOf(sent)

\* C6: once the writer has created its sinks, the total sink holds the
\* header followed by the records of the results received, one per result
\* and in the order of reception; the accepted-only sink holds the header
\* followed by those records of the total sink whose decision column is
\* ALLOW, in the same order, and so no record whose decision is DENY; when
\* the writer has finished, both buffers are flushed and the files hold all
\* of it.
C6_SinkContents ==
    writer.pc \in {"loop", "done"} =>
        /\ Content(outFile) = <<header>> \o RecordsOf(got)
        /\ Content(routableFile) =
             <<header>> \o SelectSeq(Tail(Content(outFile)), LAMBDA rec : rec[9] = "ALLOW")
        /\ \A i \in 2 .. Len(Content(routableFile)) : Content(routableFile)[i][9] # "DENY"
        /\ writer.pc = "done" =>
             /\ outFile.buf = <<>> /\ outFile.closed
             /\ routableFile.buf = <<>> /\ routableFile.closed

\* the writer has finished after it received a DENY result and later an
\* ALLOW result: the accepted-only file holds records, and fewer than the
\* total file
C6_Witness ==
    /\ writer.pc = "done"
    /\ \E i, j \in DOMAIN got :
         i < j /\ got[i].Decision = "DENY" /\ got[j].Decision = "ALLOW"
    /\ Len(routableFile.file) >= 2
    /\ Len(routableFile.file) < Len(outFile.file)

----------------------------------------------------------------------------
(* Claims about the two axis matchers *)

\* the addresses of a network: those of its family between its first and
\* its last address
InCIDR(n, ip) ==
    /\ IsV4(n.IP) = IsV4(ip)
    /\ cidrRange(n)[1] <= ip /\ ip <= cidrRange(n)[2]

\* the object covers the address, as the specification words it
Covers(addr, ip) ==
    \/ addr.Name = "all"
    \/ addr.Type = "ipmask" /\ addr.IPNet # NoNet /\ InCIDR(addr.IPNet, ip)
    \/ /\ addr.Type = "iprange" /\ addr.StartIP # NoIP /\ addr.EndIP # NoIP
       /\ addr.StartIP <= ip /\ ip <= addr.EndIP

Covered(addrs, ip) == Len(addrs) > 0 /\ \E k \in DOMAIN addrs : Covers(addrs[k], ip)

FqdnOnly(addrs) == \A k \in DOMAIN addrs : addrs[k].Type = "fqdn" /\ addrs[k].Name # "all"

\* the address lists of up to two objects
ProbeAddrLists ==
    LET objs == {allAddr, lan, rng4, rng6, net6, fq}
    IN {<<>>} \cup { <<a>> : a \in objs } \cup { <<a, b>> : a \in objs, b \in objs }

\* C11: matchAddr(L, x) is true exactly when L is non-empty and one of its
\* elements is the all sentinel, an ipmask whose network contains x, or an
\* iprange with start <= x <= end, both ends included; an empty list and a
\* list of fqdn objects match no address; and a policy with such a source or
\* destination axis does not match the evaluated task and is not the policy
\* of the result.
C11_AddrMatch ==
    phase = "evaluated" =>
        /\ \A L \in ProbeAddrLists, x \in {task.SrcIP, task.DstIP, V4(0), V4(2), 0} :
             /\ matchAddr(L, x) = Covered(L, x)
             /\ FqdnOnly(L) => ~matchAddr(L, x)
        /\ \A k \in DOMAIN Policies :
             /\ matchAddr(Policies[k].SrcAddrs, task.SrcIP)
                  = Covered(Policies[k].SrcAddrs, task.SrcIP)
             /\ matchAddr(Policies[k].DstAddrs, task.DstIP)
                  = Covered(Policies[k].DstAddrs, task.DstIP)
             /\ (FqdnOnly(Policies[k].SrcAddrs) \/ FqdnOnly(Policies[k].DstAddrs)) =>
                  /\ ~matches(Policies[k], task)
                  /\ result.MatchedPolicyID # Policies[k].ID

\* a task whose source is the first address of the range of the matched
\* policy was evaluated, and the table also holds a policy with an empty
\* source axis
C11_Witness ==
    /\ phase = "evaluated"
    /\ \E k, j \in DOMAIN Policies :
         /\ result.MatchedPolicyID = Policies[k].ID
         /\ \E a \in DOMAIN Policies[k].SrcAddrs :
              /\ Policies[k].SrcAddrs[a].Type = "iprange"
              /\ Policies[k].SrcAddrs[a].StartIP = task.SrcIP
         /\ ~Covers(Policies[k].SrcAddrs[1], task.SrcIP)
         /\ Policies[j].SrcAddrs = <<>>

\* the service lists of up to two objects, and the tasks of every protocol
\* and of every port around the port ranges of the objects
ProbeSvcLists ==
    LET objs == {allSvc, tcp1, udp12}
    IN {<<>>} \cup { <<a>> : a \in objs } \cup { <<a, b>> : a \in objs, b \in objs }

ProbeSvcTasks == { Task(V4(1), V4(1), port, proto) : port \in 0 .. 3, proto \in Protocols }

SvcCovers(svc, t) ==
    \/ svc.Name = "all"
    \/ svc.Protocol = t.Proto /\ t.Port \in svc.StartPort .. svc.EndPort

\* C12: matchSvc(S, t) is true exactly when S is non-empty and one of its
\* elements is the all sentinel or has the protocol of the task and a port
\* range, both ends included, that holds the port of the task; an entry of
\* one protocol does not match a task of the other protocol on a port of its
\* range; and the services of every loaded policy match the evaluated task
\* by this rule.
C12_SvcMatch ==
    phase = "evaluated" =>
        /\ \A S \in ProbeSvcLists, t \in ProbeSvcTasks \cup {task} :
             /\ matchSvc(S, t) = (Len(S) > 0 /\ \E k \in DOMAIN S : SvcCovers(S[k], t))
             /\ \A k \in DOMAIN S :
                  (S[k].Name # "all" /\ S[k].Protocol # t.Proto) => ~matchSvc(<<S[k]>>, t)
        /\ \A k \in DOMAIN Policies :
             matchSvc(Policies[k].Services, task)
               = (Len(Policies[k].Services) > 0
                  /\ \E a \in DOMAIN Policies[k].Services :
                       SvcCovers(Policies[k].Services[a], task))

\* a tcp task was evaluated: it matched a policy through a tcp entry whose
\* last port is the port of the task, and the table holds a policy whose
\* only service is a udp entry with that port in its range, which did not
\* match
C12_Witness ==
    /\ phase = "evaluated"
    /\ task.Proto = "tcp"
    /\ \E k, j \in DOMAIN Policies :
         /\ result.MatchedPolicyID = Policies[j].ID
         /\ \E a \in DOMAIN Policies[j].Services :
              /\ Policies[j].Services[a].Protocol = "tcp"
              /\ Policies[j].Services[a].EndPort = task.Port
         /\ Len(Policies[k].Services) = 1
         /\ Policies[k].Services[1].Protocol = "udp"
         /\ task.Port \in Policies[k].Services[1].StartPort .. Policies[k].Services[1].EndPort
         /\ ~matchSvc(Policies[k].Services, task)

----------------------------------------------------------------------------
(* Claims about the axes of a loaded policy *)

\* the id of a block or row of the rule source, and its three axes
SourceID(row) == IF provider = "fortigate" THEN ToString(row[1]) ELSE ToString(row[2])

SourceAxes(row) ==
    IF provider = "fortigate" THEN <<row[2], row[3], row[4]>>
    ELSE <<row[3], row[4], row[5]>>

\* the flattened axes of a policy, in the same order
FlatAxes(policy) == <<policy.SrcAddrs, policy.DstAddrs, policy.Services>>

\* the source gives the list, and the list is empty
ExplicitlyEmpty(axis) == Len(axis) = 1 /\ Len(axis[1]) = 0

\* the policies of the rule source with their parsed and flattened form
Loaded ==
    { <<row, policy>> \in
        { <<rules[k], parsed[j]>> : k \in DOMAIN rules, j \in DOMAIN parsed } :
        policy.ID = SourceID(row) }

\* C13: after a successful Parse of either provider, an axis the source
\* omits is flattened to the single universal sentinel, and an axis the
\* source gives as an empty list is flattened to the empty list, and the
\* policy then matches no task.
C13_EmptyAxis ==
    (provider # "" /\ flatErr = NoErr) =>
        \A lp \in Loaded : \A a \in 1 .. 3 :
            /\ Len(SourceAxes(lp[1])[a]) = 0 =>
                 /\ Len(FlatAxes(lp[2])[a]) = 1
                 /\ FlatAxes(lp[2])[a][1].Name = "all"
            /\ ExplicitlyEmpty(SourceAxes(lp[1])[a]) =>
                 /\ FlatAxes(lp[2])[a] = <<>>
                 /\ \A t \in FlatTasks : ~matches(lp[2], t)
                 /\ phase = "evaluated" => result.MatchedPolicyID # lp[2].ID

\* the same statement for the FortiGate provider alone
FortiGateEmptyAxis == provider = "fortigate" => C13_EmptyAxis

\* a FortiGate policy with an explicitly empty axis was loaded and a task
\* was evaluated
FortiGateEmptyAxisSeen ==
    /\ provider = "fortigate" /\ phase = "evaluated"
    /\ \E lp \in Loaded : \E a \in 1 .. 3 : ExplicitlyEmpty(SourceAxes(lp[1])[a])

----------------------------------------------------------------------------
(* Claims about failures and termination of the pipeline *)

\* C14: when the writer could not create the total or the accepted-only
\* file, run does not return a nil error: it never reports success with
\* missing output.
C14_SinkFailureSurfaced ==
    writer.pc = "failed" => outcome # "ok"

\* cidr_size as a number: 2^(bits - ones)
SizeOf(n) == 2 ^ (n.Bits - n.Ones)

\* the axis is iterated host by host
Iterated(fl, n) ==
    fl.matchMode = "expand" /\ 1 < SizeOf(n) /\ SizeOf(n) <= fl.maxHosts

\* the addresses of a network in ascending order, each once
Ascending(n) ==
    SelectSeq([i \in 1 .. MaxIP + 1 |-> i - 1], LAMBDA ip : InCIDR(n, ip))

\* the addresses the enumeration rule gives to a network
AddressesOf(fl, n) ==
    IF Iterated(fl, n) THEN Ascending(n) ELSE <<cidrRange(n)[1]>>

RECURSIVE Flatten(_)
Flatten(ss) == IF ss = <<>> THEN <<>> ELSE Head(ss) \o Flatten(Tail(ss))

\* the tasks of the enumeration rule as (source address, source network,
\* destination address, destination network, port, protocol), sources
\* outermost and ports innermost
Enumeration(tr, fl) ==
    Flatten([si \in 1 .. Len(tr.SrcIPs) |->
      Flatten([a \in 1 .. Len(AddressesOf(fl, tr.SrcIPs[si])) |->
        Flatten([di \in 1 .. Len(tr.DstIPs) |->
          Flatten([b \in 1 .. Len(AddressesOf(fl, tr.DstIPs[di].IPNet)) |->
            [pi \in 1 .. Len(tr.Ports) |->
               <<AddressesOf(fl, tr.SrcIPs[si])[a],
                 NetString(tr.SrcIPs[si]),
                 AddressesOf(fl, tr.DstIPs[di].IPNet)[b],
                 NetString(tr.DstIPs[di].IPNet),
                 tr.Ports[pi].Port,
                 tr.Ports[pi].Protocol>>]])])])])

\* the tasks the producer has sent, in the order of emission
Emitted ==
    [i \in 1 .. Len(sent) |->
       <<sent[i].SrcIP, sent[i].SrcCIDR, sent[i].DstIP, sent[i].DstCIDR,
         sent[i].Port, sent[i].Proto>>]

IsPrefix(a, b) == Len(a) <= Len(b) /\ a = SubSeq(b, 1, Len(a))

EnumerationRule ==
    /\ IsPrefix(Emitted, Enumeration(traffic, flags))
    /\ Len(sent) = Len(Enumeration(traffic, flags)) /\ producer.pc = "loop"
         => producer.pos = NoPos
    /\ producer.pc = "done" => Emitted = Enumeration(traffic, flags)
    /\ producer.pc = "done" /\ flags.matchMode = "sample"
         => producer.taskCount = Len(traffic.SrcIPs) * Len(traffic.DstIPs) * Len(traffic.Ports)

\* C15: the producer emits, for each source network, each of its addresses,
\* each destination network, each of its addresses and each port entry, one
\* task, where the addresses of a network are all of its addresses once in
\* ascending order when the mode is expand and 1 < cidr_size <= max_hosts
\* and its first address otherwise; it then stops.  In sample mode it ends
\* after |Src| * |Dst| * |Ports| tasks.
C15_Enumeration ==
    EnumerationRule

\* a network of prefix length 0 is iterated host by host
WholeSpaceIterated ==
    \/ \E i \in DOMAIN traffic.SrcIPs :
         traffic.SrcIPs[i].Ones = 0 /\ Iterated(flags, traffic.SrcIPs[i])
    \/ \E i \in DOMAIN traffic.DstIPs :
         traffic.DstIPs[i].IPNet.Ones = 0 /\ Iterated(flags, traffic.DstIPs[i].IPNet)

\* the enumeration rule holds of every run that iterates no network of
\* prefix length 0
EnumerationOfProperNetworks ==
    WholeSpaceIterated \/ EnumerationRule

\* the producer has closed the task channel after it iterated a network of
\* two addresses
EnumerationOfProperNetworksSeen ==
    /\ producer.pc = "done"
    /\ flags.matchMode = "expand"
    /\ Len(sent) >= 2
    /\ sent[1].DstIP # sent[2].DstIP

----------------------------------------------------------------------------
(* Claims about the precheck and about the order of the policy table *)

\* the policies the precheck does not skip: enabled, matching the queried
\* port and protocol as a service match does, and related to both networks
Remaining ==
    { i \in DOMAIN Policies :
        /\ Policies[i].Enabled
        /\ matchSvc(Policies[i].Services, QueryTask(NoIP, NoIP))
        /\ addrRelation(Policies[i].SrcAddrs, query.Src) # relNone
        /\ addrRelation(Policies[i].DstAddrs, query.Dst) # relNone }

\* C16: for a query of two networks, the precheck decides on the first
\* policy in priority order that is enabled, whose services match the port
\* and protocol and whose source and destination relations are not NONE:
\* EXPAND with that policy if a relation is PARTIAL, ALLOW_ALL with it if
\* both are FULL and the action is accept, SKIP with it if both are FULL
\* and the action is not accept; without such a policy it answers SKIP with
\* no policy and the reason PRECHECK_IMPLICIT_DENY.
C16_PrecheckClassification ==
    (phase = "prechecked" /\ query.Src # NoNet /\ query.Dst # NoNet) =>
        IF Remaining = {}
        THEN presult = PrecheckAnswer(StatusSkip, NoPolicy, "PRECHECK_IMPLICIT_DENY")
        ELSE LET p == Policies[First(Remaining)]
                 srcRel == addrRelation(p.SrcAddrs, query.Src)
                 dstRel == addrRelation(p.DstAddrs, query.Dst)
             IN /\ presult.Policy = p
                /\ \A j \in Remaining : p.Priority <= Policies[j].Priority
                /\ (srcRel = relPartial \/ dstRel = relPartial)
                     => presult.Status = StatusExpand
                /\ (srcRel = relFull /\ dstRel = relFull /\ p.Action = "accept")
                     => presult.Status = StatusAllowAll
                /\ (srcRel = relFull /\ dstRel = relFull /\ p.Action # "accept")
                     => presult.Status = StatusSkip
                /\ presult.Status \in {StatusExpand, StatusAllowAll, StatusSkip}

\* the precheck skipped the enabled policy of the first priority and
\* answered ALLOW_ALL with a later policy
C16_Witness ==
    /\ phase = "prechecked"
    /\ query.Src # NoNet /\ query.Dst # NoNet
    /\ Remaining # {}
    /\ First(Remaining) > 1
    /\ Policies[1].Enabled
    /\ presult.Status = StatusAllowAll
    /\ presult.Policy = Policies[First(Remaining)]

\* out is a rearrangement of in, ascending in priority, in which policies of
\* equal priority stand in the order they have in in
StableSortOf(in, out) ==
    /\ Len(out) = Len(in)
    /\ BagOfSeq(out) = BagOfSeq(in)
    /\ \A i, j \in DOMAIN out : i < j => out[i].Priority <= out[j].Priority
    /\ \E f \in [DOMAIN out -> DOMAIN in] :
         /\ \A i, j \in DOMAIN out : i # j => f[i] # f[j]
         /\ \A i \in DOMAIN out : out[i] = in[f[i]]
         /\ \A i, j \in DOMAIN out :
              (i < j /\ out[i].Priority = out[j].Priority) => f[i] < f[j]

\* C17: NewEvaluator leaves a table that is ascending in priority, in which
\* two policies of equal priority keep the order they had in the sequence
\* given, and that holds the same policies as often as that sequence.
C17_StableSort ==
    [][(phase = "load" /\ phase' = "ready") => StableSortOf(input, Policies')]_vars

\* NewEvaluator has moved the policy given last to the front of the table
C17_Witness ==
    /\ phase = "ready"
    /\ Len(Policies) = MaxPolicies
    /\ Policies[1].ID = ToString(MaxPolicies)
    /\ Policies[1].Priority < Policies[2].Priority

----------------------------------------------------------------------------
(* Claims about termination and about the closing of the channels *)

\* the pipeline runs with one worker or more and the writer has created
\* both sinks
Running ==
    /\ phase = "pipeline"
    /\ flags.workers >= 1
    /\ writer.pc = "loop"

\* the producer has closed the task channel, the workers have left their
\* loops, the result channel is closed and drained, the writer has exited
\* and run has returned
Terminated ==
    /\ phase = "returned"
    /\ producer.pc = "done" /\ tasks.closed
    /\ \A w \in DOMAIN worker : worker[w].pc = "done"
    /\ results.closed /\ results.buf = <<>>
    /\ writer.pc = "done"

\* the place of the producer's loops after k sends
RECURSIVE PlaceAfter(_)
PlaceAfter(k) ==
    IF k = 0 THEN srcEnter(traffic, flags, 1)
    ELSE afterSend(traffic, flags, PlaceAfter(k - 1))

\* the producer's loops are never again at a place they have sent from; the
\* place is all the state the loops have, so loops that come back to a
\* place have no last send
LoopsAdvance ==
    (producer.pc = "loop" /\ producer.pos # NoPos) =>
        \A k \in 0 .. producer.taskCount - 1 : PlaceAfter(k) # producer.pos

\* C18: with one worker or more and both sinks created, under a fair
\* scheduler the producer closes the task channel after its last send, the
\* workers leave their loops, the result channel is closed, the writer
\* drains it and exits, and run returns, whatever the traffic input, the
\* mode and max_hosts; the producer's loops therefore never come back to a
\* place they have sent from.
C18_Termination ==
    []LoopsAdvance /\ (Running ~> Terminated)

\* the pipeline terminates in every run that iterates no network of prefix
\* length 0
TerminationOfProperNetworks ==
    (Running /\ ~WholeSpaceIterated) ~> Terminated

\* what holds of the channels in every state: a closed task channel was
\* closed by the producer, at the end of its loops; a closed result channel
\* was closed by run, and every worker has left its loop; no send on a
\* closed result channel has happened; when run has returned both
\* channels are closed, if there are workers; a writer that left its loop has
\* received every result the workers sent, one for each task sent
ClosedChannels ==
    /\ tasks.closed <=> producer.pc = "done"
    /\ tasks.closed => producer.pos = NoPos
    /\ results.closed <=> coord \in {"writerWait", "returned"}
    /\ results.closed => \A w \in DOMAIN worker : worker[w].pc = "done"
    /\ outcome # "panic"
    /\ phase = "returned" => (results.closed /\ (flags.workers >= 1 => tasks.closed))
    /\ writer.pc = "done" =>
         /\ results.closed /\ results.buf = <<>>
         /\ Len(got) = Len(received)
         /\ BagOfSeq(got) = BagOfSeq(ResultsOf(received))
         /\ flags.workers >= 1 => received = sent

\* the steps that touch the channels: a channel is closed from open, the
\* task channel by the producer's step after its loops and the result
\* channel by run's step after wg.Wait; a closed channel stays closed and
\* takes no further value
ClosingStep ==
    /\ tasks.closed' # tasks.closed =>
         /\ ~tasks.closed
         /\ producer.pc = "loop" /\ producer.pos = NoPos /\ producer'.pc = "done"
         /\ sent' = sent
    /\ producer'.pc # producer.pc /\ producer'.pc = "done" => ~tasks.closed
    /\ tasks.closed => (tasks'.closed /\ sent' = sent /\ Len(tasks'.buf) <= Len(tasks.buf))
    /\ results.closed' # results.closed =>
         /\ ~results.closed
         /\ coord = "wait" /\ coord' = "writerWait"
         /\ \A w \in DOMAIN worker : worker[w].pc = "done"
    /\ coord' # coord /\ coord' = "writerWait" => ~results.closed
    /\ results.closed => (results'.closed /\ Len(results'.buf) <= Len(results.buf))

----------------------------------------------------------------------------
(* Claims about a writer that could not create its files *)

\* the number of tasks of the run
NumTasks == Len(Enumeration(traffic, flags))

\* the writer has failed in a run with workers whose enumeration ends
WriterFailed ==
    /\ phase \in {"pipeline", "returned"}
    /\ flags.workers >= 1
    /\ writer.pc = "failed"
    /\ ~WholeSpaceIterated

\* more tasks than the result channel and the workers hold
ExceedsResults == NumTasks > results.cap + flags.workers

\* more tasks than the result channel, the workers and the task channel hold
ExceedsAll == NumTasks > results.cap + flags.workers + tasks.cap

\* run is held: the result channel is open and run has not returned
Held20 == ~results.closed /\ coord = "wait" /\ phase = "pipeline"

BlockedStep ==
    (WriterFailed /\ Len(results.buf) = results.cap) =>
        /\ results'.buf = results.buf
        /\ \A w \in DOMAIN worker : worker[w].pc = "send" => worker'[w] = worker[w]

ProducerBlockedSeen ==
    /\ WriterFailed
    /\ ExceedsAll
    /\ Len(results.buf) = results.cap
    /\ \A w \in DOMAIN worker : worker[w].pc = "send"
    /\ Len(tasks.buf) = tasks.cap
    /\ producer.pc = "loop" /\ producer.pos # NoPos

\* under a fair scheduler, with more tasks than the result channel and the
\* workers hold, every worker ends blocked on its send for ever
WorkersBlockForEver ==
    (WriterFailed /\ ExceedsResults) ~>
        [](/\ Len(results.buf) = results.cap
           /\ \A w \in DOMAIN worker : worker[w].pc = "send")

----------------------------------------------------------------------------
(* Claims about the progress counter and the estimate *)

\* the counter in every state: at most the number of records written; a
\* multiple of the batch size while the writer is in its loop, namely the
\* last multiple the number of records written has reached; the number of
\* records written once the writer has ended its loop
CounterState ==
    /\ completedTasks <= writer.written
    /\ writer.written = Len(got)
    /\ writer.pc \in {"idle", "create", "failed"} => completedTasks = 0
    /\ writer.pc = "loop" =>
         completedTasks = writer.written - (writer.written % BatchSize)
    /\ writer.pc = "done" => completedTasks = writer.written

\* a step that changes the counter is a step of the writer and of no worker
\* and not of the producer; it raises the counter to the number of records
\* written, which is a multiple of the batch size unless the step is the
\* writer's last
CounterStep ==
    completedTasks' # completedTasks =>
        /\ writer' # writer
        /\ worker' = worker /\ producer' = producer /\ tasks' = tasks
        /\ completedTasks' > completedTasks
        /\ completedTasks' = writer'.written
        /\ writer'.pc = "loop" => completedTasks' % BatchSize = 0

\* C21: the progress counter is stored by the writer only; it is never above
\* the number of records written and never decreases; while the writer is
\* in its loop it changes only to multiples of the batch size, and when the
\* writer has ended normally it is the number of records written.
C21_ProgressCounter ==
    []CounterState /\ [][CounterStep]_vars

\* the reporter has logged the counter stored at the first batch, and the
\* writer has ended with a number of records that is no multiple of the
\* batch size, which the counter now holds
C21_Witness ==
    /\ writer.pc = "done"
    /\ writer.written > BatchSize
    /\ writer.written % BatchSize # 0
    /\ completedTasks = writer.written
    /\ progress.lastLogged = BatchSize

\* the estimate is the number of tasks the producer sends: never fewer than
\* it has sent, and what it has sent when it closes the task channel
EstimateIsCount ==
    phase \in {"pipeline", "returned"} =>
        /\ producer.taskCount <= totalTasks
        /\ producer.pc = "done" => producer.taskCount = totalTasks

\* C22: for every traffic input, mode and max_hosts, the estimate taken
\* before the pipeline starts is the number of tasks the producer sends
\* before it closes the task channel.
C22_EstimateMirrorsProducer ==
    EstimateIsCount

\* the estimate is the producer's count in every run that iterates no
\* network of prefix length 0, and is then the sum the claim gives
EstimateOfProperNetworks ==
    WholeSpaceIterated \/
        /\ EstimateIsCount
        /\ phase \in {"pipeline", "returned"} => totalTasks = NumTasks

\* the producer has closed the task channel after as many tasks as
\* estimated, in a run that iterated the addresses of a network
EstimateOfProperNetworksSeen ==
    /\ producer.pc = "done"
    /\ flags.matchMode = "expand"
    /\ totalTasks = MaxTasks
    /\ producer.taskCount = totalTasks

----------------------------------------------------------------------------
(* Claims about the visit set and about the service names *)

\* C23: a flatten call leaves the visit set as it was given, whether it
\* succeeds or fails, so the set holds the names of the calls under way and
\* is empty when a top-level call returns; a name that reaches no cycle is
\* flattened without error, also when a group is reached along several
\* paths; and a configuration without a policy that reaches a cycle is
\* flattened without error, whatever groups its policies and axes share.
C23_VisitSet ==
    phase \in {"load", "failed"} =>
        LET p == ParserOf(AddrGrps, SvcGrps) IN
        /\ \A n \in NameUniverse :
             /\ \A V \in SUBSET AddrGroupNames :
                  flattenAddrGroup(p, n, V).visited = V
             /\ \A V \in SUBSET SvcGroupNames :
                  flattenSvcGroup(p, n, V).visited = V
             /\ ~ReachesCycle(AddrGrps, n) => flattenAddrGroup(p, n, {}).err = NoErr
             /\ ~ReachesCycle(SvcGrps, n) => flattenSvcGroup(p, n, {}).err = NoErr
        /\ (\A k \in DOMAIN parsed : ~CyclicPolicy(parsed[k])) =>
             (flatErr = NoErr /\ phase # "failed")

\* the group B is reached as a raw name and through the group A by one
\* axis, and is the destination of another policy; flattening succeeded
C23_Witness ==
    /\ phase = "load"
    /\ flatErr = NoErr
    /\ DOMAIN AddrGrps = {"A", "B"}
    /\ AddrGrps["A"] = <<"B", "B">>
    /\ AddrGrps["B"] = <<"lan">>
    /\ \E k \in DOMAIN parsed : parsed[k].RawSrcAddrNames = <<"B", "A">>
    /\ \E k \in DOMAIN parsed : parsed[k].RawDstAddrNames = <<"B">>

\* what the ad-hoc syntax gives to the service names of the configurations
AdHocOf(n) ==
    CASE n = "tcp_1" -> <<ServiceObject(n, "tcp", 1, 1)>>
      [] n = "tcp_2" -> <<ServiceObject(n, "tcp", 2, 2)>>
      [] n = "udp_1-2" -> <<ServiceObject(n, "udp", 1, 2)>>
      [] OTHER -> <<>>

\* what the registry gives to the service names of the configurations: the
\* entries of the name in upper case, each as a service of one port
RegistryOf(n) ==
    CASE n \in {"dns", "DNS"} ->
           <<ServiceObject(n, "tcp", 53, 53), ServiceObject(n, "udp", 53, 53)>>
      [] n = "ALL_ICMP" -> <<ServiceObject(n, "tcp", 65535, 65535)>>
      [] OTHER -> <<>>

ServiceProbeNames == {"dns", "DNS", "ALL_ICMP", "tcp_1", "tcp_2", "udp_1-2", "ghost", "lan"}

\* every name that is neither a service object nor a service group is
\* flattened to its registry entries, or without them to what the ad-hoc
\* syntax gives, without error
ServiceFallbackRule ==
    phase # "config" =>
        LET p == ParserOf(AddrGrps, SvcGrps) IN
        \A n \in ServiceProbeNames :
            (n \notin DOMAIN p.ServiceObjects /\ n \notin DOMAIN p.SvcGrps) =>
                flattenSvcGroup(p, n, {}) =
                    Flat(IF RegistryOf(n) # <<>> THEN RegistryOf(n) ELSE AdHocOf(n),
                         NoErr, {})

\* C24: for every provider, a raw service name that is neither a service
\* object nor a service group resolves to all the entries of the well-known
\* registry under that name, and without such entries to (proto, port,
\* port) for proto_port and (proto, start, end) for proto_start-end; any
\* other name gives no service and no error.
C24_ServiceFallback ==
    ServiceFallbackRule

\* the rule holds of the MariaDB provider
ServiceFallbackMariaDB ==
    provider = "mariadb" => ServiceFallbackRule

\* a MariaDB policy holds registry services and ad-hoc services
ServiceFallbackMariaDBSeen ==
    /\ provider = "mariadb"
    /\ phase = "load"
    /\ \E k \in DOMAIN parsed :
         /\ ServiceObject("dns", "udp", 53, 53) \in SeqRange(parsed[k].Services)
         /\ ServiceObject("tcp_1", "tcp", 1, 1) \in SeqRange(parsed[k].Services)

\* an enabled policy of any addresses whose services are what the name
\* ALL_ICMP flattens to
StubPolicy ==
    Policy("stub", 1, <<allAddr>>, <<allAddr>>,
           flattenSvcGroup(ParserOf(AddrGrps, SvcGrps), "ALL_ICMP", {}).results,
           "accept", TRUE)

\* C25: an enabled policy whose services are flattened from the well-known
\* name ALL_ICMP only matches no task of protocol tcp or udp and of a port
\* from 1 to 65535, whatever its addresses.
C25_IcmpStubNeverMatches ==
    phase # "config" =>
        \A t \in ProbeTasks :
            (t.Port >= 1 /\ t.Port <= 65535) => ~matches(StubPolicy, t)

\* the stub matches no task of a port below 65535 and no udp task
IcmpStubBelowLastPort ==
    phase # "config" =>
        /\ StubPolicy.Services # <<>>
        /\ \A t \in ProbeTasks :
             (t.Port < 65535 \/ t.Proto = "udp") => ~matches(StubPolicy, t)

----------------------------------------------------------------------------
(* Claims about the order of the output and about the evaluator's frame *)

\* the tasks sent from the k-th on are those of the places of the producer's
\* loops from pos on
RECURSIVE SentAlong(_, _)
SentAlong(k, pos) ==
    \/ k > Len(sent)
    \/ /\ pos # NoPos
       /\ sent[k] = taskAt(traffic, pos)
       /\ SentAlong(k + 1, afterSend(traffic, flags, pos))

\* the records of the tasks sent, in the order of emission
EmissionRecords == RecordsOf(ResultsOf(sent))

\* C26: the tasks sent are those of the places of the producer's loops in
\* their order, which the traffic input and the flags fix; when run has
\* returned after a writer that created its sinks, the total sink holds the
\* header and the records of the tasks sent, each as often as sent, in
\* every interleaving, and in the order of emission when there is one
\* worker.  That the order of the records differs from the
\* order of emission in some interleaving of two workers or more is the
\* state C26_Witness.
C26_OutputOrder ==
    /\ sent = <<>> \/ SentAlong(1, srcEnter(traffic, flags, 1))
    /\ (outcome = "ok" /\ flags.workers >= 1 /\ writer.pc = "done") =>
         /\ producer.pos = NoPos
         /\ Len(outFile.file) = 1 + Len(sent)
         /\ outFile.file[1] = header
         /\ BagOfSeq(Tail(outFile.file)) = BagOfSeq(EmissionRecords)
         /\ flags.workers = 1 => Tail(outFile.file) = EmissionRecords

\* run has returned with two workers or more, and the records of the total
\* sink are the records of the tasks sent in another order
C26_Witness ==
    /\ outcome = "ok"
    /\ flags.workers >= 2
    /\ writer.pc = "done"
    /\ Tail(outFile.file) # EmissionRecords
    /\ BagOfSeq(Tail(outFile.file)) = BagOfSeq(EmissionRecords)

\* the results that exist: held by a worker, in the result channel, or
\* received by the writer
ResultsAbout == SeqRange(Held) \cup SeqRange(results.buf) \cup SeqRange(got)

\* once the evaluator is built, no step changes the policy table, the
\* objects on it or the index
EvaluatorFrame ==
    phase \in {"ready", "evaluated", "prechecked", "pipeline", "returned"} =>
        /\ Policies' = Policies
        /\ precheckIndex' = precheckIndex
        /\ broadPolicies' = broadPolicies

-----------------------------------------------------------------------------
(* Claims about the size of a network, the bounds of a service and the     *)
(* address families                                                        *)

\* the networks of the traffic input, whose sizes the estimate and the
\* producer take
TrafficNets ==
    SeqRange(traffic.SrcIPs) \cup { traffic.DstIPs[i].IPNet : i \in DOMAIN traffic.DstIPs }

\* C28: CIDRSize of every network the run takes the size of, of either
\* family and of every prefix length, is 2^(bits - ones).
C28_CIDRSizeIsPower ==
    phase \in {"pipeline", "returned"} =>
        \A n \in TrafficNets : CIDRSize(n) = 2 ^ (n.Bits - n.Ones)

\* CIDRSize is that power for every network whose host part is shorter than
\* the integer it is computed in, which every IPv4 network is, and is 0 for
\* the others
CIDRSizeWithinWidth ==
    phase \in {"pipeline", "returned"} =>
        \A n \in TrafficNets :
            /\ n.Bits = V4Bits => n.Bits - n.Ones < SizeBits
            /\ CIDRSize(n) = (IF n.Bits - n.Ones < SizeBits
                              THEN 2 ^ (n.Bits - n.Ones) ELSE 0)

\* a run has taken the size of an IPv6 network of prefix length 0, found 0,
\* and sent the network address as its one task
CIDRSizeWithinWidthSeen ==
    /\ producer.pc = "done"
    /\ flags.matchMode = "expand"
    /\ \E i \in DOMAIN traffic.SrcIPs :
         traffic.SrcIPs[i].Bits = V6Bits /\ traffic.SrcIPs[i].Ones = 0
    /\ producer.taskCount = 1

\* the protocol and the port bounds of a service the evaluator can match
WithinBounds(svc) ==
    /\ svc.Protocol \in {"tcp", "udp"}
    /\ 1 <= svc.StartPort
    /\ svc.StartPort <= svc.EndPort
    /\ svc.EndPort <= 65535

\* the services on the flattened lists of the policies loaded, the sentinel
\* left out
LoadedServices ==
    { s \in UNION { SeqRange(parsed[k].Services) : k \in DOMAIN parsed } : s.Name # "all" }

\* C29: after load every service on a policy's flattened service list other
\* than the sentinel, whether a custom service, a registry service or an
\* ad-hoc one, has protocol tcp or udp and 1 <= start_port <= end_port <=
\* 65535.
C29_ServiceBounds ==
    \A s \in LoadedServices : WithinBounds(s)

\* the services loaded that are out of bounds are those the ad-hoc syntax
\* built from their name
ServiceBoundsSaveAdHoc ==
    \A s \in LoadedServices :
        WithinBounds(s) \/ (provider = "mariadb" /\ <<s>> = adHocService(s.Name))

\* a policy is loaded with services of the registry and of the ad-hoc syntax
\* that are within bounds
ServiceBoundsSaveAdHocSeen ==
    /\ provider = "mariadb"
    /\ \E s, t \in LoadedServices :
         /\ WithinBounds(s) /\ <<s>> = adHocService(s.Name)
         /\ WithinBounds(t) /\ adHocService(t.Name) = <<>>

\* the ipmask and iprange objects on the address axes of the policy table
TableObjects ==
    { a \in UNION { SeqRange(Policies[k].SrcAddrs) \cup SeqRange(Policies[k].DstAddrs) :
                      k \in DOMAIN Policies } :
        a.Name # "all" /\ a.Type \in {"ipmask", "iprange"} /\ addressRange(a)[1] # NoIP }

\* the object's bounds are of the other address family than the address
OtherFamily(a, ip) == ~sameIPFamily(addressRange(a)[1], ip)

\* matchAddr keeps the families apart for the objects in Objs: none matches
\* an address of the other family, and one that addrRelation finds
\* unrelated to the source network of the query matches none of its hosts
FamiliesApart(Objs) ==
    /\ phase = "evaluated" =>
         \A a \in Objs, x \in {task.SrcIP, task.DstIP} :
             OtherFamily(a, x) => ~matchAddr(<<a>>, x)
    /\ (phase = "prechecked" /\ query.Src # NoNet) =>
         \A a \in Objs :
             addrRelation(<<a>>, query.Src) = relNone =>
                 \A x \in Hosts(query.Src) : ~matchAddr(<<a>>, x)

\* C30: for every ipmask or iprange object of the policy table and every
\* task address of the other family matchAddr is false, so an object that
\* addrRelation reports NONE against a network covers no address of it.
C30_FamiliesApart ==
    FamiliesApart(TableObjects)

\* matchAddr keeps the families apart for every ipmask object and every
\* iprange object whose bounds are IPv4 addresses
FamiliesApartSaveV6Ranges ==
    FamiliesApart({ a \in TableObjects : a.Type = "ipmask" \/ IsV4(a.EndIP) })

\* an IPv6 task address was evaluated against a table that holds an IPv4
\* network, which does not match it
FamiliesApartSaveV6RangesSeen ==
    /\ phase = "evaluated"
    /\ ~IsV4(task.SrcIP)
    /\ \E a \in TableObjects :
         a.Type = "ipmask" /\ IsV4(a.IPNet.IP) /\ ~matchAddr(<<a>>, task.SrcIP)
====
